---- MODULE Spec2Model ----
(***************************************************************************)
(* A model of the four-stage search service: the Stage-1 inverted index,   *)
(* the Stage-2 BM25 scorer, the Stage-3 vector re-ranker, the Stage-4      *)
(* personalization re-ranker and the SearchService that fans out to them.  *)
(*                                                                         *)
(* Representation.                                                         *)
(*  - A text is the sequence of its raw words, i.e. the pieces the word    *)
(*    tokenizer splits it into; lowercasing and filtering are computed.    *)
(*  - A JavaScript Set or Map whose iteration order is observable (it is   *)
(*    sliced or sorted stably) is a duplicate-free sequence in insertion   *)
(*    order; a Map that is only looked up is a function on its key set.    *)
(*  - A floating-point number is a fixed-point integer with Scale units    *)
(*    per 1.0; Math.log is computed by its atanh series.                   *)
(*  - A handler that awaits the embedding model is split at that await;    *)
(*    everything between two awaits is one atomic action.                  *)
(***************************************************************************)
EXTENDS Integers, Sequences, FiniteSets, TLC

(***************************************************************************)
(* Bounds of the model.                                                    *)
(***************************************************************************)
\* addDocument is not taken once Stage-1 totalTerms would exceed this
MaxTotalTerms == 18
\* number of service calls that may be suspended at an await at one time
MaxCalls == 1
\* the same number in the specification of the concurrent calls
MaxConcurrent == 2
\* the value of totalDocuments of Stage 2 up to which documents are added to
\* Stage 2 alone
MaxTotalDocuments == 4
\* the largest limit findSimilarDocuments is called with
MaxLimit == 2

(***************************************************************************)
(* Fixed-point numbers.                                                    *)
(***************************************************************************)
Scale == 10 * 1000

Fx(num, den) == (num * Scale) \div den
FxMul(a, b) == (a * b) \div Scale
FxDiv(a, b) == (a * Scale) \div b

Min(a, b) == IF a <= b THEN a ELSE b

\* sum over k = 1, 3, 5, ... of z^k / k, with pow = z^k
RECURSIVE AtanhSeries(_, _, _, _)
AtanhSeries(z2, pow, k, acc) ==
  IF pow = 0 \/ k > 199 THEN acc
  ELSE AtanhSeries(z2, FxMul(pow, z2), k + 2, acc + pow \div k)

\* Math.log(p / q) for integers p, q > 0:  2 * atanh((p - q) / (p + q)).
\* Exactly zero when p = q.
LnRatio(p, q) ==
  LET z == Fx(p - q, p + q)
      a == IF z >= 0 THEN AtanhSeries(FxMul(z, z), z, 1, 0)
                     ELSE -AtanhSeries(FxMul(z, z), -z, 1, 0)
  IN  2 * a

(***************************************************************************)
(* Generic helpers for insertion-ordered sets and maps.                    *)
(***************************************************************************)
Range(s) == {s[i] : i \in 1..Len(s)}

\* a membership test that finds nothing
InSeqNever(x, s) == FALSE

InSeq(x, s) == \E i \in 1..Len(s) : s[i] = x

\* Set.add
SetAdd(s, x) == IF InSeq(x, s) THEN s ELSE Append(s, x)

\* Set.delete / Array.filter(y => y !== x)
SetDelete(s, x) == SelectSeq(s, LAMBDA y : y # x)

\* slice(0, n + 1): a cut one entry too late
SliceOneMore(s, n) == SubSeq(s, 1, Min(n + 1, Len(s)))

\* Array.slice(0, n)
Slice(s, n) == IF n <= 0 THEN << >> ELSE SubSeq(s, 1, Min(n, Len(s)))

\* Array.slice(-n) for n > 0
\* a slice(-n) that keeps one entry more
SliceLastOneMore(s, n) ==
  IF Len(s) <= n + 1 THEN s ELSE SubSeq(s, Len(s) - n, Len(s))

SliceLast(s, n) == IF Len(s) <= n THEN s ELSE SubSeq(s, Len(s) - n + 1, Len(s))

RECURSIVE SumSeq(_)
SumSeq(s) == IF s = << >> THEN 0 ELSE Head(s) + SumSeq(Tail(s))

RECURSIVE SumOver(_, _)
SumOver(f, S) ==
  IF S = {} THEN 0
  ELSE LET k == CHOOSE x \in S : TRUE IN f[k] + SumOver(f, S \ {k})

\* a function with one key removed / one key set
MapDelete(f, k) == [x \in (DOMAIN f) \ {k} |-> f[x]]
MapSet(f, k, v) == [x \in (DOMAIN f) \cup {k} |-> IF x = k THEN v ELSE f[x]]
EmptyMap == [x \in {} |-> 0]

(***************************************************************************)
(* Tokenizer / normalizer (the same code in Stage-1 and Stage-2).          *)
(***************************************************************************)
StopWords ==
  { "the", "a", "an", "and", "or", "but", "in", "on", "at", "to", "for", "of",
    "with", "by", "is", "are", "was", "were", "be", "been", "have", "has",
    "had", "do", "does", "did", "will", "would", "could", "should", "may",
    "might", "can", "this", "that", "these", "those", "i", "you", "he", "she",
    "it", "we", "they", "me", "him", "her", "us", "them" }

isStopWord(token) == token \in StopWords

\* String.toLowerCase on the words of the model's vocabulary
ToLowerCase(w) ==
  CASE w = "Machine"  -> "machine"
    [] w = "Learning" -> "learning"
    [] w = "Deep"     -> "deep"
    [] w = "Data"     -> "data"
    [] w = "The"      -> "the"
    [] OTHER          -> w

\* text.toLowerCase() -> tokenizer.tokenize -> strip non-word characters (a
\* no-op on the tokenizer's output for this vocabulary) -> filter
tokenizeAndNormalize(text) ==
  SelectSeq([i \in 1..Len(text) |-> ToLowerCase(text[i])],
            LAMBDA token : Len(token) > 2 /\ ~isStopWord(token))

\* tokens.filter(token => token === term).length
CountOf(term, tokens) == Len(SelectSeq(tokens, LAMBDA t : t = term))

(***************************************************************************)
(* Documents, queries and configuration.                                   *)
(***************************************************************************)
NoValue == "undefined"
\* an absent number
Absent == 0 - 1
\* an absent request context
NoContext == [defined |-> FALSE, previousQueries |-> << >>]

\* the two documents of the scenarios of the specification
D1 == [id |-> "d1", title |-> <<"Machine", "Learning">>,
       content |-> <<"algorithms", "that", "learn", "from", "data">>,
       category |-> "technology", metaCategory |-> NoValue]
D2 == [id |-> "d2", title |-> <<"Deep", "Learning">>,
       content |-> <<"neural", "networks", "with", "multiple", "layers">>,
       category |-> NoValue, metaCategory |-> NoValue]
\* a second document with the id of D1 and another text
D1b == [id |-> "d1", title |-> <<"Deep", "Data">>,
        content |-> <<"learn", "from", "the", "data", "layers">>,
        category |-> NoValue, metaCategory |-> "technology"]
D3 == [id |-> "d3", title |-> <<"Data">>,
       content |-> <<"networks", "of", "data", "from", "multiple",
                     "algorithms">>,
       category |-> "news", metaCategory |-> "news"]

\* a document of category news with a word no other document has
D4 == [id |-> "d4", title |-> <<"news">>,
       content |-> <<"neural", "data", "from", "multiple", "layers">>,
       category |-> "news", metaCategory |-> "news"]

Documents == {D1, D2, D1b, D3}
\* documents with pairwise different ids
DistinctDocuments == {D1, D2, D3}
DocIds == {d.id : d \in Documents}

Queries ==
  { <<"neural", "networks">>, <<"learning">>, <<"learning", "deep">>,
    <<"machine", "deep">>, <<"The", "x">> }

(***************************************************************************)
(* Stage 1: the inverted index.  A state of Layer1InvertedIndex is a       *)
(* record [index, documents, documentCount, totalTerms]; index maps a term *)
(* to its entry, documents is the id-keyed Map in insertion order.         *)
(***************************************************************************)
L1Empty ==
  [index |-> EmptyMap, documents |-> << >>, documentCount |-> 0,
   totalTerms |-> 0]

\* Map.has / Map.get / Map.set / Map.delete / Map.keys of an id-keyed Map of
\* documents kept in insertion order (set on a present key keeps its place)
DocHas(docs, id) == \E i \in 1..Len(docs) : docs[i].id = id
DocGet(docs, id) == docs[CHOOSE i \in 1..Len(docs) : docs[i].id = id]
DocSet(docs, d) ==
  IF DocHas(docs, d.id)
  THEN [i \in 1..Len(docs) |-> IF docs[i].id = d.id THEN d ELSE docs[i]]
  ELSE Append(docs, d)
DocDelete(docs, id) == SelectSeq(docs, LAMBDA d : d.id # id)
DocKeys(docs) == [i \in 1..Len(docs) |-> docs[i].id]

NewEntry(token) ==
  [term |-> token, documentIds |-> << >>, termFrequency |-> EmptyMap,
   documentFrequency |-> 0]

\* the body of allTokens.forEach in addDocument, for one token
L1AddToken(index, token, id) ==
  LET e0 == IF token \in DOMAIN index THEN index[token] ELSE NewEntry(token)
      ids == SetAdd(e0.documentIds, id)
      currentTf == IF id \in DOMAIN e0.termFrequency
                   THEN e0.termFrequency[id] ELSE 0
      e1 == [term |-> token,
             documentIds |-> ids,
             termFrequency |-> MapSet(e0.termFrequency, id, currentTf + 1),
             documentFrequency |-> Len(ids)]
  IN  MapSet(index, token, e1)

RECURSIVE L1AddTokens(_, _, _)
L1AddTokens(index, tokens, id) ==
  IF tokens = << >> THEN index
  ELSE L1AddTokens(L1AddToken(index, Head(tokens), id), Tail(tokens), id)

L1AllTokens(document) ==
  tokenizeAndNormalize(document.title) \o tokenizeAndNormalize(document.content)

L1addDocument(s, document) ==
  LET allTokens == L1AllTokens(document)
  IN  [index |-> L1AddTokens(s.index, allTokens, document.id),
       documents |-> DocSet(s.documents, document),
       documentCount |-> s.documentCount + 1,
       totalTerms |-> s.totalTerms + Len(allTokens)]

\* the body of allTokens.forEach in removeDocument, for one token
L1RemoveToken(index, token, id) ==
  IF token \notin DOMAIN index THEN index
  ELSE LET e0 == index[token]
           ids == SetDelete(e0.documentIds, id)
           e1 == [term |-> token,
                  documentIds |-> ids,
                  termFrequency |-> MapDelete(e0.termFrequency, id),
                  documentFrequency |-> Len(ids)]
       IN  IF Len(ids) = 0 THEN MapDelete(index, token)
           ELSE MapSet(index, token, e1)

RECURSIVE L1RemoveTokens(_, _, _)
L1RemoveTokens(index, tokens, id) ==
  IF tokens = << >> THEN index
  ELSE L1RemoveTokens(L1RemoveToken(index, Head(tokens), id), Tail(tokens), id)

\* the state removeDocument leaves; its return value is L1Has(s, documentId)
L1Has(s, id) == DocHas(s.documents, id)

L1removeDocument(s, documentId) ==
  IF ~L1Has(s, documentId) THEN s
  ELSE LET allTokens == L1AllTokens(DocGet(s.documents, documentId))
       IN  [index |-> L1RemoveTokens(s.index, allTokens, documentId),
            documents |-> DocDelete(s.documents, documentId),
            documentCount |-> s.documentCount - 1,
            totalTerms |-> s.totalTerms]

L1getIndexStats(s) ==
  [totalDocuments |-> s.documentCount,
   totalTerms |-> s.totalTerms,
   uniqueTerms |-> Cardinality(DOMAIN s.index),
   averageTermsPerDocument |->
     IF s.documentCount > 0 THEN Fx(s.totalTerms, s.documentCount) ELSE 0]

\* entry.documentIds.forEach(docId => result.add(docId)) over the tokens
RECURSIVE unionDocuments(_, _)
unionDocuments(s, tokens) ==
  IF tokens = << >> THEN << >>
  ELSE LET rest == unionDocuments(s, SubSeq(tokens, 1, Len(tokens) - 1))
           token == tokens[Len(tokens)]
           RECURSIVE AddAll(_, _)
           AddAll(acc, ids) ==
             IF ids = << >> THEN acc
             ELSE AddAll(SetAdd(acc, Head(ids)), Tail(ids))
       IN  IF token \in DOMAIN s.index
           THEN AddAll(rest, s.index[token].documentIds)
           ELSE rest

\* the for loop of intersectDocuments from position i on
RECURSIVE IntersectFrom(_, _, _, _)
IntersectFrom(s, tokens, i, result) ==
  IF i > Len(tokens) THEN result
  ELSE IF tokens[i] \in DOMAIN s.index
       THEN IntersectFrom(s, tokens, i + 1,
              SelectSeq(result,
                LAMBDA docId : InSeq(docId, s.index[tokens[i]].documentIds)))
       ELSE << >>

\* an intersection that starts from every stored document and leaves the
\* first token out
intersectDocumentsFromAll(s, tokens) ==
  IF Len(tokens) = 0 THEN << >>
  ELSE IntersectFrom(s, tokens, 2, DocKeys(s.documents))

intersectDocuments(s, tokens) ==
  IF Len(tokens) = 0 THEN << >>
  ELSE IntersectFrom(s, tokens, 2,
         IF tokens[1] \in DOMAIN s.index
         THEN s.index[tokens[1]].documentIds ELSE << >>)

excludeDocuments(s, tokens) ==
  LET allDocuments == DocKeys(s.documents)
      excluded == unionDocuments(s, tokens)
  IN  SelectSeq(allDocuments, LAMBDA docId : ~InSeq(docId, excluded))

\* Layer1InvertedIndex.search: the candidate ids and totalCount
L1search(s, cfg, query) ==
  LET queryTokens == tokenizeAndNormalize(query)
      candidateDocuments == unionDocuments(s, queryTokens)
  IN  IF Len(queryTokens) = 0
      THEN [documentIds |-> << >>, totalCount |-> 0]
      ELSE [documentIds |-> Slice(candidateDocuments, cfg.maxResultsLayer1),
            totalCount |-> Len(candidateDocuments)]

Operators == {"AND", "OR", "NOT"}

L1booleanSearch(s, cfg, query, operator) ==
  LET queryTokens == tokenizeAndNormalize(query)
      resultDocuments ==
        CASE operator = "AND" -> intersectDocuments(s, queryTokens)
          [] operator = "OR"  -> unionDocuments(s, queryTokens)
          [] operator = "NOT" -> excludeDocuments(s, queryTokens)
          [] OTHER            -> unionDocuments(s, queryTokens)
  IN  IF Len(queryTokens) = 0
      THEN [documentIds |-> << >>, totalCount |-> 0]
      ELSE [documentIds |-> Slice(resultDocuments, cfg.maxResultsLayer1),
            totalCount |-> Len(resultDocuments)]

(***************************************************************************)
(* Stage 2: the BM25 scorer.  A state of Layer2BM25 is a record            *)
(* [documents, documentLengths, averageDocumentLength,                     *)
(*  termDocumentFrequency, totalDocuments]; the three Maps are only looked *)
(* up or summed, so they are functions on their key sets.                  *)
(***************************************************************************)
\* bm25Params: k1 = 1.2, b = 0.75
K1 == (12 * Scale) \div 10
B == (75 * Scale) \div 100

L2Empty ==
  [documents |-> EmptyMap, documentLengths |-> EmptyMap,
   averageDocumentLength |-> 0, termDocumentFrequency |-> EmptyMap,
   totalDocuments |-> 0]

L2Tokens(document) == tokenizeAndNormalize(document.title \o document.content)

\* updateAverageDocumentLength, from the lengths and the counter given
updateAverageDocumentLength(documentLengths, totalDocuments) ==
  IF totalDocuments = 0 THEN 0
  ELSE Fx(SumOver(documentLengths, DOMAIN documentLengths), totalDocuments)

RECURSIVE L2IncrementDf(_, _)
L2IncrementDf(df, uniqueTokens) ==
  IF uniqueTokens = {} THEN df
  ELSE LET token == CHOOSE t \in uniqueTokens : TRUE
           currentDf == IF token \in DOMAIN df THEN df[token] ELSE 0
       IN  L2IncrementDf(MapSet(df, token, currentDf + 1),
                         uniqueTokens \ {token})

L2addDocument(s, document) ==
  LET tokens == L2Tokens(document)
      lengths == MapSet(s.documentLengths, document.id, Len(tokens))
      total == s.totalDocuments + 1
  IN  [documents |-> MapSet(s.documents, document.id, document),
       documentLengths |-> lengths,
       averageDocumentLength |-> updateAverageDocumentLength(lengths, total),
       termDocumentFrequency |->
         L2IncrementDf(s.termDocumentFrequency, Range(tokens)),
       totalDocuments |-> total]

RECURSIVE L2DecrementDf(_, _)
L2DecrementDf(df, uniqueTokens) ==
  IF uniqueTokens = {} THEN df
  ELSE LET token == CHOOSE t \in uniqueTokens : TRUE
           currentDf == IF token \in DOMAIN df THEN df[token] ELSE 0
       IN  L2DecrementDf(IF currentDf > 1
                         THEN MapSet(df, token, currentDf - 1)
                         ELSE MapDelete(df, token),
                         uniqueTokens \ {token})

L2Has(s, id) == id \in DOMAIN s.documents

\* the state removeDocument leaves; its return value is L2Has(s, documentId)
L2removeDocument(s, documentId) ==
  IF ~L2Has(s, documentId) THEN s
  ELSE LET tokens == L2Tokens(s.documents[documentId])
           lengths == MapDelete(s.documentLengths, documentId)
           total == s.totalDocuments - 1
       IN  [documents |-> MapDelete(s.documents, documentId),
            documentLengths |-> lengths,
            averageDocumentLength |->
              updateAverageDocumentLength(lengths, total),
            termDocumentFrequency |->
              L2DecrementDf(s.termDocumentFrequency, Range(tokens)),
            totalDocuments |-> total]

L2getStats(s) ==
  [totalDocuments |-> s.totalDocuments,
   averageDocumentLength |-> s.averageDocumentLength,
   uniqueTerms |-> Cardinality(DOMAIN s.termDocumentFrequency)]

getTermFrequency(s, term, documentId) ==
  IF documentId \notin DOMAIN s.documents THEN 0
  ELSE CountOf(term, L2Tokens(s.documents[documentId]))

\* the score of one query term for one document, 0 when the term is skipped
BM25TermScore(s, term, documentId) ==
  LET documentLength == IF documentId \in DOMAIN s.documentLengths
                        THEN s.documentLengths[documentId] ELSE 0
      tf == getTermFrequency(s, term, documentId)
      df == IF term \in DOMAIN s.termDocumentFrequency
            THEN s.termDocumentFrequency[term] ELSE 0
      \* (N - df + 0.5) / (df + 0.5), both sides doubled
      idf == LnRatio(2 * (s.totalDocuments - df) + 1, 2 * df + 1)
      numerator == tf * (K1 + Scale)
      denominator ==
        tf * Scale
        + FxMul(K1, Scale - B
                    + FxMul(B, FxDiv(documentLength * Scale,
                                     s.averageDocumentLength)))
  IN  IF tf > 0 /\ df > 0
      THEN IF s.averageDocumentLength = 0 THEN 0  \* x / Infinity
           ELSE FxMul(idf, FxDiv(numerator, denominator))
      ELSE 0

RECURSIVE BM25TotalScore(_, _, _)
BM25TotalScore(s, queryTokens, documentId) ==
  IF queryTokens = << >> THEN 0
  ELSE BM25TermScore(s, Head(queryTokens), documentId)
       + BM25TotalScore(s, Tail(queryTokens), documentId)

\* a filter that keeps every score
ScoreIsKeptAlways(totalScore) == TRUE

\* documents whose total score passes the filter of calculateBM25Scores
ScoreIsKept(totalScore) == totalScore > 0

calculateBM25Scores(s, queryTokens, documentIds) ==
  LET all == [i \in 1..Len(documentIds) |->
                [documentId |-> documentIds[i],
                 score |-> BM25TotalScore(s, queryTokens, documentIds[i])]]
  IN  SelectSeq(all, LAMBDA sc : ScoreIsKept(sc.score))

\* Array.prototype.sort((a, b) => b.score - a.score): stable, descending
RECURSIVE InsertByScore(_, _)
InsertByScore(sorted, x) ==
  IF sorted = << >> THEN <<x>>
  ELSE IF x.score > Head(sorted).score THEN <<x>> \o sorted
       ELSE <<Head(sorted)>> \o InsertByScore(Tail(sorted), x)

RECURSIVE SortByScore(_)
SortByScore(s) ==
  IF s = << >> THEN << >>
  ELSE InsertByScore(SortByScore(SubSeq(s, 1, Len(s) - 1)), s[Len(s)])

\* Layer2BM25.search: scored is the sorted list before the slice
L2search(s, cfg, query, layer1Results) ==
  LET queryTokens == tokenizeAndNormalize(query)
      scored == SortByScore(
                  calculateBM25Scores(s, queryTokens, layer1Results.documentIds))
      limitedScores == Slice(scored, cfg.maxResultsLayer2)
      toResult(sc) ==
        LET document == s.documents[sc.documentId]
        IN  [id |-> document.id, title |-> document.title,
             content |-> document.content, score |-> sc.score,
             metadata |-> [bm25Score |-> sc.score,
                           category |-> document.metaCategory]]
  IN  IF Len(queryTokens) = 0 \/ Len(layer1Results.documentIds) = 0
      THEN [results |-> << >>, totalCount |-> 0, scored |-> << >>]
      ELSE [results |-> [i \in 1..Len(limitedScores) |->
                           toResult(limitedScores[i])],
            totalCount |-> Len(scored),
            scored |-> scored]

\* Layer2BM25.search throws `Document ... không tồn tại`: a score that is
\* kept and falls within the cap belongs to an id this.documents lacks
L2searchThrows(s, cfg, query, layer1Results) ==
  LET queryTokens == tokenizeAndNormalize(query)
      scored == SortByScore(
                  calculateBM25Scores(s, queryTokens, layer1Results.documentIds))
      limitedScores == Slice(scored, cfg.maxResultsLayer2)
  IN  /\ Len(queryTokens) # 0
      /\ Len(layer1Results.documentIds) # 0
      /\ \E i \in 1..Len(limitedScores) :
           limitedScores[i].documentId \notin DOMAIN s.documents

(***************************************************************************)
(* Stage 3: the vector re-ranker.  A state of Layer3VectorSearch is a      *)
(* record [embeddings, isModelLoaded]; embeddings is the id-keyed Map in   *)
(* insertion order.  The embedding model is external: what it returns for  *)
(* a text is any vector of Vectors, and a load or a call may fail.         *)
(***************************************************************************)
\* vectors of one dimension and one norm (5 stands for 1.0)
Vectors == {<<5, 0>>, <<3, 4>>}

L3Empty == [embeddings |-> << >>, isModelLoaded |-> FALSE]

L3Has(s, id) == \E i \in 1..Len(s.embeddings) : s.embeddings[i].documentId = id
L3Get(s, id) ==
  s.embeddings[CHOOSE i \in 1..Len(s.embeddings) :
                 s.embeddings[i].documentId = id]

\* this.embeddings.set(document.id, embedding)
L3setEmbedding(s, document, vector) ==
  LET e == [documentId |-> document.id, vector |-> vector,
            \* { category: document.category, ...document.metadata }
            category |-> IF document.metaCategory # NoValue
                         THEN document.metaCategory ELSE document.category]
  IN  [s EXCEPT !.embeddings =
         IF L3Has(s, document.id)
         THEN [i \in 1..Len(@) |->
                 IF @[i].documentId = document.id THEN e ELSE @[i]]
         ELSE Append(@, e)]

\* this.embeddings.delete(documentId); its return value is L3Has(s, documentId)
removeEmbedding(s, documentId) ==
  [s EXCEPT !.embeddings = SelectSeq(@, LAMBDA e : e.documentId # documentId)]

\* the largest r with r * r <= n
ISqrt(n) == CHOOSE r \in 0..n : r * r <= n /\ (r + 1) * (r + 1) > n

calculateCosineSimilarity(vectorA, vectorB) ==
  LET dotProduct == SumSeq([i \in 1..Len(vectorA) |-> vectorA[i] * vectorB[i]])
      normA == SumSeq([i \in 1..Len(vectorA) |-> vectorA[i] * vectorA[i]])
      normB == SumSeq([i \in 1..Len(vectorB) |-> vectorB[i] * vectorB[i]])
  IN  IF normA = 0 \/ normB = 0 THEN 0
      ELSE Fx(dotProduct, ISqrt(normA) * ISqrt(normB))

\* the fusion weights of combineScores
Bm25Weight == (6 * Scale) \div 10
VectorWeight == (4 * Scale) \div 10

\* the fusion with the two weights exchanged
CombinedScoreSwapped(bm25Score, vectorScore) ==
  FxMul(VectorWeight, bm25Score) + FxMul(Bm25Weight, vectorScore)

CombinedScore(bm25Score, vectorScore) ==
  FxMul(Bm25Weight, bm25Score) + FxMul(VectorWeight, vectorScore)

combineScores(s, bm25Results, queryEmbedding) ==
  [i \in 1..Len(bm25Results) |->
     LET result == bm25Results[i]
         vectorScore ==
           IF L3Has(s, result.id)
           THEN calculateCosineSimilarity(queryEmbedding,
                                          L3Get(s, result.id).vector)
           ELSE 0
     IN  [result EXCEPT
            !.score = CombinedScore(result.score, vectorScore),
            !.metadata = [bm25Score |-> result.metadata.bm25Score,
                          category |-> result.metadata.category,
                          vectorSimilarity |-> vectorScore]]]

\* Layer3VectorSearch.search once the query embedding has arrived
L3search(s, cfg, queryEmbedding, layer2Results) ==
  LET combinedResults ==
        SortByScore(combineScores(s, layer2Results.results, queryEmbedding))
  IN  IF Len(layer2Results.results) = 0
      THEN [results |-> << >>, totalCount |-> 0]
      ELSE [results |-> Slice(combinedResults, cfg.maxResultsLayer3),
            totalCount |-> Len(combinedResults)]

\* Array.prototype.sort((a, b) => b.similarity - a.similarity): stable,
\* descending
RECURSIVE InsertBySimilarity(_, _)
InsertBySimilarity(sorted, x) ==
  IF sorted = << >> THEN <<x>>
  ELSE IF x.similarity > Head(sorted).similarity THEN <<x>> \o sorted
       ELSE <<Head(sorted)>> \o InsertBySimilarity(Tail(sorted), x)

RECURSIVE SortBySimilarity(_)
SortBySimilarity(s) ==
  IF s = << >> THEN << >>
  ELSE InsertBySimilarity(SortBySimilarity(SubSeq(s, 1, Len(s) - 1)), s[Len(s)])

\* the similarities of the entries others to the vector of documentId
SimilaritiesTo(s, documentId, others) ==
  LET sourceEmbedding == L3Get(s, documentId)
  IN  [i \in 1..Len(others) |->
         [documentId |-> others[i].documentId,
          similarity |-> calculateCosineSimilarity(sourceEmbedding.vector,
                                                   others[i].vector),
          vector |-> others[i].vector]]

\* the result without the test id !== documentId
findSimilarDocumentsWithSelf(s, documentId, limit) ==
  Slice(SortBySimilarity(SimilaritiesTo(s, documentId, s.embeddings)), limit)

\* Layer3VectorSearch.findSimilarDocuments for an id with a stored vector
findSimilarDocuments(s, documentId, limit) ==
  Slice(SortBySimilarity(
          SimilaritiesTo(s, documentId,
                         SelectSeq(s.embeddings,
                                   LAMBDA e : e.documentId # documentId))),
        limit)

(***************************************************************************)
(* Stage 4: the personalization re-ranker.  Its state is userProfiles, a   *)
(* function from the user ids that have a profile to the profile.          *)
(***************************************************************************)
Pct(n) == (n * Scale) \div 100

Users == {"u1"}

EmptyPreferences == [categories |-> << >>, languages |-> << >>, topics |-> << >>]
EmptyBehavior ==
  [clickHistory |-> << >>, searchHistory |-> << >>, timeSpent |-> EmptyMap]

\* String.includes of a lowercased text word, for the model's vocabulary
WordIncludes(textWord, word) ==
  textWord = word \/ (word = "learn" /\ textWord = "learning")

\* `${result.title} ${result.content}`.toLowerCase().includes(word)
ResultTextIncludes(result, word) ==
  \E w \in Range(result.title) \cup Range(result.content) :
     WordIncludes(ToLowerCase(w), ToLowerCase(word))

\* the number of (query, word) pairs of the history found in the result text
RECURSIVE CountHits(_, _)
CountHits(result, queries) ==
  IF queries = << >> THEN 0
  ELSE Len(SelectSeq(Head(queries),
                     LAMBDA word : ResultTextIncludes(result, word)))
       + CountHits(result, Tail(queries))

calculateSearchHistoryBoost(result, searchHistory) ==
  IF Len(searchHistory) = 0 THEN 0
  ELSE Min(CountHits(result, searchHistory) * Pct(5), Pct(20))

calculateQueryContextBoost(result, previousQueries) ==
  Min(CountHits(result, previousQueries) * Pct(3), Pct(10))

\* the boost applyUserPersonalization gives one result; the metadata of the
\* model's documents holds no ageGroup and no tags, so the demographics
\* boost is 0
UserBoost(userProfile, result) ==
  LET timeSpent == IF result.id \in DOMAIN userProfile.behavior.timeSpent
                   THEN userProfile.behavior.timeSpent[result.id] ELSE 0
  IN  (IF result.metadata.category # NoValue
          /\ InSeq(result.metadata.category,
                   userProfile.preferences.categories)
       THEN Pct(20) ELSE 0)
      + (IF InSeq(result.id, userProfile.behavior.clickHistory)
         THEN Pct(15) ELSE 0)
      + calculateSearchHistoryBoost(result, userProfile.behavior.searchHistory)
      + (IF timeSpent > 0 THEN Min(Fx(timeSpent, 1000), Pct(10)) ELSE 0)

\* score + score * boost * weight
Boosted(score, boost, weight) == score + FxMul(FxMul(score, boost), weight)

applyUserPersonalization(profiles, cfg, userId, results) ==
  IF userId \notin DOMAIN profiles THEN results
  ELSE [i \in 1..Len(results) |->
          LET b == UserBoost(profiles[userId], results[i])
          IN  [results[i] EXCEPT
                 !.score = Boosted(@, b, cfg.userProfileWeight),
                 !.personalizationBoost = b]]

\* the metadata of the model's documents holds no location and no
\* mobileOptimized / desktopOptimized, and the session boost is 0
applyContextualPersonalization(cfg, context, results) ==
  [i \in 1..Len(results) |->
     LET b == IF Len(context.previousQueries) > 0
              THEN calculateQueryContextBoost(results[i],
                                              context.previousQueries)
              ELSE 0
     IN  [results[i] EXCEPT
            !.score = Boosted(@, b, cfg.contextWeight),
            !.contextBoost = b]]

calculateTimeOfDayBoost(category, hour) ==
  LET preferredHours ==
        CASE category = "news" -> {6, 7, 8, 18, 19, 20}
          [] category = "entertainment" -> {19, 20, 21, 22, 23}
          [] category = "work" -> {9, 10, 11, 14, 15, 16}
          [] category = "shopping" -> {10, 11, 12, 15, 16, 17, 20, 21}
          [] OTHER -> {}
  IN  IF hour \in preferredHours THEN Pct(5) ELSE 0

calculateDayOfWeekBoost(category, dayOfWeek) ==
  LET preferredDays ==
        CASE category = "work" -> {1, 2, 3, 4, 5}
          [] category = "entertainment" -> {5, 6, 0}
          [] category = "shopping" -> {6, 0}
          [] category = "news" -> {1, 2, 3, 4, 5, 6, 0}
          [] OTHER -> {}
  IN  IF dayOfWeek \in preferredDays THEN Pct(3) ELSE 0

\* the temporal step with the boost of a preferred hour for every result
applyTemporalPersonalizationFlat(cfg, now, results) ==
  [i \in 1..Len(results) |->
     [results[i] EXCEPT
        !.score = Boosted(@, Pct(5), cfg.temporalWeight),
        !.temporalBoost = Pct(5)]]

\* the metadata of the model's documents holds no createdAt, so the recency
\* boost is 0
applyTemporalPersonalization(cfg, now, results) ==
  [i \in 1..Len(results) |->
     LET category == results[i].metadata.category
         b == IF category # NoValue
              THEN calculateTimeOfDayBoost(category, now.hour)
                   + calculateDayOfWeekBoost(category, now.dayOfWeek)
              ELSE 0
     IN  [results[i] EXCEPT
            !.score = Boosted(@, b, cfg.temporalWeight),
            !.temporalBoost = b]]

\* the score without the weight of the temporal signals
calculatePersonalizationScoreOfUser(cfg, userId, context) ==
  Min((IF userId # NoValue THEN cfg.userProfileWeight ELSE 0)
      + (IF context.defined THEN cfg.contextWeight ELSE 0),
      Scale)

calculatePersonalizationScore(cfg, userId, context) ==
  Min((IF userId # NoValue THEN cfg.userProfileWeight ELSE 0)
      + (IF context.defined THEN cfg.contextWeight ELSE 0)
      + cfg.temporalWeight,
      Scale)

\* a result as it enters Stage 4: the boosts are not yet in its metadata
WithBoostFields(results) ==
  [i \in 1..Len(results) |->
     [id |-> results[i].id, title |-> results[i].title,
      content |-> results[i].content, score |-> results[i].score,
      metadata |-> results[i].metadata, stage3Score |-> results[i].score,
      personalizationBoost |-> Absent, contextBoost |-> Absent,
      temporalBoost |-> Absent]]

\* Layer4Personalization.personalize; now is the clock it reads
personalize(profiles, cfg, request, layer3Results, now) ==
  LET r0 == WithBoostFields(layer3Results.results)
      r1 == IF request.userId # NoValue
            THEN applyUserPersonalization(profiles, cfg, request.userId, r0)
            ELSE r0
      r2 == IF request.context.defined
            THEN applyContextualPersonalization(cfg, request.context, r1)
            ELSE r1
      r3 == SortByScore(applyTemporalPersonalization(cfg, now, r2))
  IN  IF Len(layer3Results.results) = 0
      THEN [results |-> << >>, totalCount |-> 0, personalizationScore |-> 0]
      ELSE [results |-> Slice(r3, cfg.maxFinalResults),
            totalCount |-> Len(r3),
            personalizationScore |->
              calculatePersonalizationScore(cfg, request.userId,
                                            request.context)]

\* updateUserProfile at the time now: the stored object is
\* { userId, preferences, behavior, lastUpdated: new Date(),
\*   ...existingProfile, ...profile }, in which a later spread replaces the
\* top-level fields it holds, whole; profile is a function from the
\* top-level fields it supplies to their values
updateUserProfile(profiles, userId, profile, now) ==
  LET Spread(a, b) ==
        [k \in DOMAIN a \cup DOMAIN b |-> IF k \in DOMAIN b THEN b[k] ELSE a[k]]
      defaults == [userId |-> userId, preferences |-> EmptyPreferences,
                   behavior |-> EmptyBehavior, lastUpdated |-> now]
      existingProfile == IF userId \in DOMAIN profiles THEN profiles[userId]
                         ELSE EmptyMap
  IN  MapSet(profiles, userId, Spread(Spread(defaults, existingProfile), profile))

\* recordUserBehavior at the time now; data is the data object of the request
recordUserBehavior(profiles, userId, action, data, now) ==
  LET created == IF userId \in DOMAIN profiles THEN profiles
                 ELSE updateUserProfile(profiles, userId,
                        [userId |-> userId,
                         preferences |-> EmptyPreferences,
                         behavior |-> EmptyBehavior], now)
      p == created[userId]
      behavior ==
        CASE action = "click" ->
               IF InSeq(data.documentId, p.behavior.clickHistory)
               THEN p.behavior
               ELSE [p.behavior EXCEPT
                       !.clickHistory = SliceLast(Append(@, data.documentId), 100)]
          [] action = "search" ->
               [p.behavior EXCEPT
                  !.searchHistory = SliceLast(Append(@, data.query), 50)]
          [] action = "time_spent" ->
               [p.behavior EXCEPT
                  !.timeSpent =
                    MapSet(@, data.documentId,
                           (IF data.documentId \in DOMAIN @
                            THEN @[data.documentId] ELSE 0) + data.timeSpent)]
      updatedProfile == [p EXCEPT !.behavior = behavior]
  IN  updateUserProfile(created, userId, updatedProfile, now)

(***************************************************************************)
(* Configuration (config.search, config.personalization).                  *)
(***************************************************************************)
DefaultMaxResultsLayer1 == 10000
DefaultMaxResultsLayer2 == 1000
DefaultMaxResultsLayer3 == 100
DefaultMaxFinalResults == 20

DefaultConfig ==
  [maxResultsLayer1 |-> DefaultMaxResultsLayer1,
   maxResultsLayer2 |-> DefaultMaxResultsLayer2,
   maxResultsLayer3 |-> DefaultMaxResultsLayer3,
   maxFinalResults |-> DefaultMaxFinalResults,
   userProfileWeight |-> Pct(30),
   contextWeight |-> Pct(20),
   temporalWeight |-> Pct(10)]

\* the caps as MAX_RESULTS_LAYER1 .. MAX_FINAL_RESULTS may set them
Caps(c1, c2, c3, c4) ==
  [DefaultConfig EXCEPT !.maxResultsLayer1 = c1, !.maxResultsLayer2 = c2,
                        !.maxResultsLayer3 = c3, !.maxFinalResults = c4]

SmallConfigs ==
  {Caps(1, 1, 1, 1), Caps(2, 1, 1, 1), Caps(3, 2, 1, 1), Caps(3, 2, 2, 1)}

(***************************************************************************)
(* Inputs of the operations.                                               *)
(***************************************************************************)
Contexts == {[defined |-> TRUE, previousQueries |-> << <<"deep", "learn">> >>]}

Requests ==
  {[query |-> q, userId |-> NoValue, context |-> NoContext,
    limit |-> Absent] : q \in Queries}
  \cup {[query |-> q, userId |-> "u1", context |-> NoContext,
          limit |-> Absent] :
          q \in {<<"learning">>, <<"machine", "deep">>}}
  \cup {[query |-> q, userId |-> "u1", context |-> c, limit |-> Absent] :
          q \in {<<"machine", "deep">>}, c \in Contexts}
  \cup {[query |-> q, userId |-> NoValue, context |-> NoContext, limit |-> 1] :
          q \in {<<"machine", "deep">>}}

\* the clock readings of applyTemporalPersonalization (hour, day of week)
Clocks == {[hour |-> 7, dayOfWeek |-> 1], [hour |-> 3, dayOfWeek |-> 6]}

\* the profiles updateUserProfile is called with
ProfileInputs ==
  { [preferences |-> [categories |-> <<"technology">>, languages |-> <<"en">>,
                      topics |-> << >>],
     behavior |-> [clickHistory |-> <<"d1">>, searchHistory |-> << >>,
                   timeSpent |-> EmptyMap]] }

\* the behaviour events recordUserBehavior is called with
BehaviorInputs ==
  { [action |-> "click", data |-> [documentId |-> "d2"]],
    [action |-> "search", data |-> [query |-> <<"deep", "learn">>]] }

\* the bound on the search history the model lets grow
MaxSearchHistory == 1

(***************************************************************************)
(* The service: its state and its operations.                              *)
(***************************************************************************)
VARIABLES
  l1,             \* SearchService.layer1
  l2,             \* SearchService.layer2
  l3,             \* SearchService.layer3
  userProfiles,   \* SearchService.layer4.userProfiles
  config,         \* the configuration the process was started with
  isInitialized,  \* SearchService.isInitialized
  calls,          \* the calls suspended at an await
  resp            \* what the last completed step returned or threw

vars == <<l1, l2, l3, userProfiles, config, isInitialized, calls, resp>>

Idle == [kind |-> "idle"]
CallSlots == 1..MaxCalls
HasFreeSlot == \E c \in DOMAIN calls : calls[c] = Idle
FreeSlot == CHOOSE c \in DOMAIN calls :
              calls[c] = Idle /\ \A b \in DOMAIN calls : b < c => calls[b] # Idle

\* the state after construction
InitWith(cfg) ==
  /\ l1 = L1Empty
  /\ l2 = L2Empty
  /\ l3 = L3Empty
  /\ userProfiles = EmptyMap
  /\ config = cfg
  /\ isInitialized = FALSE
  /\ calls = [c \in CallSlots |-> Idle]
  /\ resp = [op |-> "none"]

\* the state after construction and a successful initialize(), in which the
\* server starts to listen
ReadyWith(cfg) ==
  /\ l1 = L1Empty
  /\ l2 = L2Empty
  /\ l3 = [L3Empty EXCEPT !.isModelLoaded = TRUE]
  /\ userProfiles = EmptyMap
  /\ config = cfg
  /\ isInitialized = TRUE
  /\ calls = [c \in CallSlots |-> Idle]
  /\ resp = [op |-> "initialize", error |-> NoValue]

Init == InitWith(DefaultConfig)
InitReady == ReadyWith(DefaultConfig)
InitCaps == \E cfg \in SmallConfigs : ReadyWith(cfg)

\* SearchService.initialize up to its await of layer3.initializeModel
Initialize ==
  /\ HasFreeSlot
  /\ ~isInitialized
  /\ calls' = [calls EXCEPT ![FreeSlot] = [kind |-> "initialize"]]
  /\ UNCHANGED <<l1, l2, l3, userProfiles, config, isInitialized, resp>>

\* the model load of initialize ends: loaded, or INITIALIZATION_ERROR
InitializeDone(c) ==
  /\ calls[c].kind = "initialize"
  /\ calls' = [calls EXCEPT ![c] = Idle]
  /\ \E ok \in BOOLEAN :
       /\ l3' = IF ok THEN [l3 EXCEPT !.isModelLoaded = TRUE] ELSE l3
       /\ isInitialized' = IF ok THEN TRUE ELSE isInitialized
       /\ resp' = [op |-> "initialize",
                   error |-> IF ok THEN NoValue ELSE "INITIALIZATION_ERROR"]
  /\ UNCHANGED <<l1, l2, userProfiles, config>>

\* an addDocument that yields after Stage 1, before Stage 2 has the document
AddDocumentStage1Only(document) ==
  /\ HasFreeSlot
  /\ l1.totalTerms + Len(L1AllTokens(document)) <= MaxTotalTerms
  /\ l1' = L1addDocument(l1, document)
  /\ calls' = [calls EXCEPT ![FreeSlot] =
                 [kind |-> "addDocument", document |-> document,
                  pc |-> IF l3.isModelLoaded THEN "embedding" ELSE "loading"]]
  /\ UNCHANGED <<l2, l3, userProfiles, config, isInitialized, resp>>

\* SearchService.addDocument up to the first await of layer3.addDocument:
\* the model load when the model is not loaded, else the embedding call
AddDocument(document) ==
  /\ HasFreeSlot
  /\ l1.totalTerms + Len(L1AllTokens(document)) <= MaxTotalTerms
  /\ l1' = L1addDocument(l1, document)
  /\ l2' = L2addDocument(l2, document)
  /\ calls' = [calls EXCEPT ![FreeSlot] =
                 [kind |-> "addDocument", document |-> document,
                  pc |-> IF l3.isModelLoaded THEN "embedding" ELSE "loading"]]
  /\ UNCHANGED <<l3, userProfiles, config, isInitialized, resp>>

AddDocumentError(c) ==
  [op |-> "addDocument", id |-> calls[c].document.id,
   error |-> "ADD_DOCUMENT_ERROR"]

\* the model load of layer3.addDocument ends: on to the embedding call, or
\* ADD_DOCUMENT_ERROR
AddDocumentLoadDone(c) ==
  /\ calls[c].kind = "addDocument"
  /\ calls[c].pc = "loading"
  /\ \/ /\ l3' = [l3 EXCEPT !.isModelLoaded = TRUE]
        /\ calls' = [calls EXCEPT ![c].pc = "embedding"]
        /\ resp' = resp
     \/ /\ l3' = l3
        /\ calls' = [calls EXCEPT ![c] = Idle]
        /\ resp' = AddDocumentError(c)
  /\ UNCHANGED <<l1, l2, userProfiles, config, isInitialized>>

\* the embedding call of layer3.addDocument ends with a vector, which is
\* stored
AddDocumentEmbedDone(c, vector) ==
  /\ calls[c].kind = "addDocument"
  /\ calls[c].pc = "embedding"
  /\ calls' = [calls EXCEPT ![c] = Idle]
  /\ l3' = L3setEmbedding(l3, calls[c].document, vector)
  /\ resp' = [op |-> "addDocument", id |-> calls[c].document.id,
              error |-> NoValue]
  /\ UNCHANGED <<l1, l2, userProfiles, config, isInitialized>>

\* the embedding call of layer3.addDocument fails: ADD_DOCUMENT_ERROR
AddDocumentEmbedFailed(c) ==
  /\ calls[c].kind = "addDocument"
  /\ calls[c].pc = "embedding"
  /\ calls' = [calls EXCEPT ![c] = Idle]
  /\ resp' = AddDocumentError(c)
  /\ UNCHANGED <<l1, l2, l3, userProfiles, config, isInitialized>>

\* SearchService.removeDocument
RemoveDocument(documentId) ==
  /\ l1' = L1removeDocument(l1, documentId)
  /\ l2' = L2removeDocument(l2, documentId)
  /\ l3' = removeEmbedding(l3, documentId)
  /\ resp' = [op |-> "removeDocument", id |-> documentId,
              success |-> L1Has(l1, documentId) /\ L2Has(l2, documentId)
                          /\ L3Has(l3, documentId)]
  /\ UNCHANGED <<userProfiles, config, isInitialized, calls>>

\* what search reports for a stage it has not invoked
EmptyLayer2 ==
  [results |-> << >>, totalCount |-> 0, executionTime |-> 0, scored |-> << >>]
EmptyLayer3 == [results |-> << >>, totalCount |-> 0, executionTime |-> 0]
EmptyLayer4 ==
  [results |-> << >>, totalCount |-> 0, executionTime |-> 0,
   personalizationScore |-> 0]

\* a response whose totalCount is the count of Stage 1
SearchResponseCountOfStage1(request, layer1, layer2, layer3, layer4) ==
  [op |-> "search", request |-> request, error |-> NoValue,
   results |-> layer4.results, totalCount |-> layer1.totalCount,
   layerStats |-> [layer1 |-> layer1, layer2 |-> layer2, layer3 |-> layer3,
                   layer4 |-> layer4]]

SearchResponse(request, layer1, layer2, layer3, layer4) ==
  [op |-> "search", request |-> request, error |-> NoValue,
   results |-> layer4.results, totalCount |-> layer4.totalCount,
   layerStats |-> [layer1 |-> layer1, layer2 |-> layer2, layer3 |-> layer3,
                   layer4 |-> layer4]]

\* the SearchRequest POST /search builds from the validated body:
\* limit: value.limit || config.search.maxFinalResults
PostSearchRequest(value) ==
  [value EXCEPT !.limit = IF @ = Absent THEN config.maxFinalResults ELSE @]

\* SearchService.search before initialize has succeeded
SearchNotInitialized(request) ==
  /\ ~isInitialized
  /\ resp' = [op |-> "search", request |-> PostSearchRequest(request),
              error |-> "NOT_INITIALIZED"]
  /\ UNCHANGED <<l1, l2, l3, userProfiles, config, isInitialized, calls>>

\* POST /search and SearchService.search up to the await of the query
\* embedding in layer3.search: Stage 1, Stage 2 and the early returns
Search(request) ==
  /\ isInitialized
  /\ LET searchRequest == PostSearchRequest(request)
         layer1Result == L1search(l1, config, searchRequest.query)
         layer2Result == L2search(l2, config, searchRequest.query,
                                  layer1Result)
     IN  IF Len(layer1Result.documentIds) = 0
         THEN /\ resp' = SearchResponse(searchRequest, layer1Result,
                                        EmptyLayer2, EmptyLayer3, EmptyLayer4)
              /\ calls' = calls
         ELSE IF Len(layer2Result.results) = 0
         THEN /\ resp' = SearchResponse(searchRequest, layer1Result,
                                        layer2Result, EmptyLayer3, EmptyLayer4)
              /\ calls' = calls
         ELSE /\ HasFreeSlot
              /\ calls' = [calls EXCEPT ![FreeSlot] =
                             [kind |-> "search", request |-> searchRequest,
                              layer1Result |-> layer1Result,
                              layer2Result |-> layer2Result]]
              /\ resp' = resp
  /\ UNCHANGED <<l1, l2, l3, userProfiles, config, isInitialized>>

\* the query embedding arrives: Stage 3 and Stage 4; now is the clock
\* Stage 4 reads
SearchEmbedDone(c, queryEmbedding, now) ==
  /\ calls[c].kind = "search"
  /\ calls' = [calls EXCEPT ![c] = Idle]
  /\ LET layer3Result == L3search(l3, config, queryEmbedding,
                                  calls[c].layer2Result)
         layer4Result == personalize(userProfiles, config, calls[c].request,
                                     layer3Result, now)
     IN  resp' = SearchResponse(calls[c].request, calls[c].layer1Result,
                                calls[c].layer2Result, layer3Result,
                                IF Len(layer3Result.results) = 0
                                THEN EmptyLayer4 ELSE layer4Result)
  /\ UNCHANGED <<l1, l2, l3, userProfiles, config, isInitialized>>

\* the query embedding fails: SEARCH_ERROR
SearchEmbedFailed(c) ==
  /\ calls[c].kind = "search"
  /\ calls' = [calls EXCEPT ![c] = Idle]
  /\ resp' = [op |-> "search", request |-> calls[c].request,
              error |-> "SEARCH_ERROR"]
  /\ UNCHANGED <<l1, l2, l3, userProfiles, config, isInitialized>>

\* SearchService.search up to its first await, that of layer1.search, whose
\* result is computed before the call is suspended
SearchStage1(request) ==
  /\ isInitialized
  /\ HasFreeSlot
  /\ LET searchRequest == PostSearchRequest(request)
     IN  calls' = [calls EXCEPT ![FreeSlot] =
                     [kind |-> "searchLayer1", request |-> searchRequest,
                      layer1Result |-> L1search(l1, config, searchRequest.query)]]
  /\ UNCHANGED <<l1, l2, l3, userProfiles, config, isInitialized, resp>>

\* the search resumes after the await of layer1.search: the early return,
\* Stage 2 on the candidates Stage 1 gave, up to the await of the query
\* embedding; an error thrown in Stage 2 ends the search with SEARCH_ERROR
SearchStage2(c) ==
  /\ calls[c].kind = "searchLayer1"
  /\ LET searchRequest == calls[c].request
         layer1Result == calls[c].layer1Result
     IN  IF Len(layer1Result.documentIds) = 0
         THEN /\ resp' = SearchResponse(searchRequest, layer1Result,
                                        EmptyLayer2, EmptyLayer3, EmptyLayer4)
              /\ calls' = [calls EXCEPT ![c] = Idle]
         ELSE IF L2searchThrows(l2, config, searchRequest.query, layer1Result)
         THEN /\ resp' = [op |-> "search", request |-> searchRequest,
                          error |-> "SEARCH_ERROR"]
              /\ calls' = [calls EXCEPT ![c] = Idle]
         ELSE LET layer2Result == L2search(l2, config, searchRequest.query,
                                           layer1Result)
              IN  IF Len(layer2Result.results) = 0
                  THEN /\ resp' = SearchResponse(searchRequest, layer1Result,
                                                 layer2Result, EmptyLayer3,
                                                 EmptyLayer4)
                       /\ calls' = [calls EXCEPT ![c] = Idle]
                  ELSE /\ calls' = [calls EXCEPT ![c] =
                                      [kind |-> "search",
                                       request |-> searchRequest,
                                       layer1Result |-> layer1Result,
                                       layer2Result |-> layer2Result]]
                       /\ resp' = resp
  /\ UNCHANGED <<l1, l2, l3, userProfiles, config, isInitialized>>

\* SearchService.findSimilarDocuments: no await before the result; an id
\* without a stored vector ends in the LayerError of Stage 3
FindSimilarDocuments(documentId, limit) ==
  /\ resp' = IF L3Has(l3, documentId)
             THEN [op |-> "findSimilarDocuments", id |-> documentId,
                   limit |-> limit, error |-> NoValue,
                   result |-> findSimilarDocuments(l3, documentId, limit)]
             ELSE [op |-> "findSimilarDocuments", id |-> documentId,
                   limit |-> limit, error |-> "LayerError",
                   result |-> << >>]
  /\ UNCHANGED <<l1, l2, l3, userProfiles, config, isInitialized, calls>>

\* SearchService.quickSearch
QuickSearch(request) ==
  /\ resp' = [op |-> "quickSearch", request |-> request,
              result |-> L1search(l1, config, request.query)]
  /\ UNCHANGED <<l1, l2, l3, userProfiles, config, isInitialized, calls>>

\* SearchService.booleanSearch
BooleanSearch(query, operator) ==
  /\ resp' = [op |-> "booleanSearch", query |-> query, operator |-> operator,
              result |-> L1booleanSearch(l1, config, query, operator)]
  /\ UNCHANGED <<l1, l2, l3, userProfiles, config, isInitialized, calls>>

\* SearchService.updateUserProfile at the time now
UpdateUserProfile(userId, profile, now) ==
  /\ userProfiles' = updateUserProfile(userProfiles, userId, profile, now)
  /\ resp' = [op |-> "updateUserProfile", userId |-> userId, now |-> now,
              profile |-> profile]
  /\ UNCHANGED <<l1, l2, l3, config, isInitialized, calls>>

\* SearchService.recordUserBehavior at the time now
RecordUserBehavior(userId, event, now) ==
  /\ userProfiles' = recordUserBehavior(userProfiles, userId, event.action,
                                        event.data, now)
  /\ resp' = [op |-> "recordUserBehavior", userId |-> userId, now |-> now,
              event |-> event]
  /\ UNCHANGED <<l1, l2, l3, config, isInitialized, calls>>

\* the vector the document life cycle is explored with
OneVector == {<<3, 4>>}

\* the requests the Stage-1 searches are explored with
IndexRequests ==
  {[query |-> q, userId |-> NoValue, context |-> NoContext,
    limit |-> Absent] :
     q \in {<<"learning", "deep">>, <<"The", "x">>}}

(***************************************************************************)
(* Spec: the life cycle of the documents from construction on, with the    *)
(* Stage-1 searches.  Stage 4 and the full search do not change the state  *)
(* of Stages 1 to 3 and are explored by SpecSearch.                        *)
(***************************************************************************)
Next ==
  \/ Initialize
  \/ \E c \in CallSlots : InitializeDone(c)
  \/ \E document \in Documents : AddDocument(document)
  \/ \E c \in CallSlots : AddDocumentLoadDone(c)
  \/ \E c \in CallSlots, vector \in OneVector : AddDocumentEmbedDone(c, vector)
  \/ \E c \in CallSlots : AddDocumentEmbedFailed(c)
  \/ \E documentId \in DocIds : RemoveDocument(documentId)
  \/ \E request \in IndexRequests : SearchNotInitialized(request)
  \/ \E request \in IndexRequests : QuickSearch(request)
  \/ \E query \in Queries, operator \in Operators : BooleanSearch(query, operator)

Spec == Init /\ [][Next]_vars

(***************************************************************************)
(* SpecSearch: the full search of a service that has been initialized,     *)
(* over documents with different ids, with the profile of the user.        *)
(***************************************************************************)
NextSearch ==
  \/ \E document \in DistinctDocuments : AddDocument(document)
  \/ \E c \in CallSlots, vector \in Vectors : AddDocumentEmbedDone(c, vector)
  \/ \E documentId \in DocIds : RemoveDocument(documentId)
  \/ \E request \in Requests : Search(request)
  \/ \E c \in CallSlots, queryEmbedding \in Vectors, now \in Clocks :
       SearchEmbedDone(c, queryEmbedding, now)
  \/ \E c \in CallSlots : SearchEmbedFailed(c)
  \/ \E userId \in Users, profile \in ProfileInputs :
       UpdateUserProfile(userId, profile, 1)

SpecSearch == InitReady /\ [][NextSearch]_vars

(***************************************************************************)
(* SpecCaps: the searches of a service started with small caps.            *)
(***************************************************************************)
CapRequests ==
  {[query |-> q, userId |-> NoValue, context |-> NoContext,
    limit |-> Absent] :
     q \in {<<"machine", "deep">>, <<"learning", "deep">>, <<"The", "x">>}}

NextCaps ==
  \/ \E document \in DistinctDocuments : AddDocument(document)
  \/ \E c \in CallSlots, vector \in OneVector : AddDocumentEmbedDone(c, vector)
  \/ \E request \in CapRequests : Search(request)
  \/ \E c \in CallSlots, queryEmbedding \in Vectors,
        now \in {[hour |-> 7, dayOfWeek |-> 1]} :
       SearchEmbedDone(c, queryEmbedding, now)
  \/ \E c \in CallSlots : SearchEmbedFailed(c)
  \/ \E request \in CapRequests : QuickSearch(request)
  \/ \E query \in {<<"learning", "deep">>, <<"learning">>, <<"The", "x">>},
        operator \in Operators :
       BooleanSearch(query, operator)

SpecCaps == InitCaps /\ [][NextCaps]_vars

(***************************************************************************)
(* SpecProfile: the profile of the user and what Stage 4 makes of it.      *)
(***************************************************************************)
NextProfile ==
  \/ \E document \in DistinctDocuments : AddDocument(document)
  \/ \E c \in CallSlots, vector \in OneVector : AddDocumentEmbedDone(c, vector)
  \/ \E request \in Requests : Search(request)
  \/ \E c \in CallSlots, queryEmbedding \in OneVector, now \in Clocks :
       SearchEmbedDone(c, queryEmbedding, now)
  \/ \E c \in CallSlots : SearchEmbedFailed(c)
  \/ \E userId \in Users, profile \in ProfileInputs :
       UpdateUserProfile(userId, profile, 1)
  \/ \E userId \in Users, event \in BehaviorInputs :
       /\ (event.action = "search" /\ userId \in DOMAIN userProfiles) =>
            Len(userProfiles[userId].behavior.searchHistory) < MaxSearchHistory
       /\ RecordUserBehavior(userId, event, 1)

SpecProfile == InitReady /\ [][NextProfile]_vars

(***************************************************************************)
(* SpecRank: the full search of an initialized service that stores no     *)
(* profile, with removals while a search waits for its query embedding.    *)
(***************************************************************************)
RankDocuments == {D1, D2, D4}


NextRank ==
  \/ \E document \in RankDocuments : AddDocument(document)
  \/ \E c \in CallSlots, vector \in OneVector : AddDocumentEmbedDone(c, vector)
  \/ \E document \in RankDocuments : RemoveDocument(document.id)
  \/ \E request \in
          {[query |-> q, userId |-> NoValue, context |-> NoContext,
            limit |-> Absent] :
             q \in {<<"machine", "deep">>, <<"news", "machine">>}}
          \cup {[query |-> <<"machine", "deep">>, userId |-> u,
                  context |-> c, limit |-> Absent] :
                  u \in Users, c \in {NoContext} \cup Contexts} :
       Search(request)
  \/ \E c \in CallSlots, queryEmbedding \in OneVector, now \in Clocks :
       SearchEmbedDone(c, queryEmbedding, now)
  \/ \E c \in CallSlots : SearchEmbedFailed(c)

\* started with the default configuration, or with MAX_FINAL_RESULTS = 1,
\* USER_PROFILE_WEIGHT = 0.6 and CONTEXT_WEIGHT = 0.5
SpecRank ==
  /\ \E cfg \in {DefaultConfig,
                  [DefaultConfig EXCEPT !.maxFinalResults = 1,
                                        !.userProfileWeight = Pct(60),
                                        !.contextWeight = Pct(50)]} :
       ReadyWith(cfg)
  /\ [][NextRank]_vars

(***************************************************************************)
(* SpecStage2: Layer2BM25 by itself: its addDocument, removeDocument and   *)
(* search called in any order, the ids of the documents repeating.         *)
(***************************************************************************)

\* Layer2BM25.addDocument
Layer2AddDocument(document) ==
  /\ l2.totalDocuments < MaxTotalDocuments
  /\ l2' = L2addDocument(l2, document)
  /\ resp' = [op |-> "layer2.addDocument", id |-> document.id]
  /\ UNCHANGED <<l1, l3, userProfiles, config, isInitialized, calls>>

\* Layer2BM25.removeDocument
Layer2RemoveDocument(documentId) ==
  /\ l2' = L2removeDocument(l2, documentId)
  /\ resp' = [op |-> "layer2.removeDocument", id |-> documentId,
              success |-> L2Has(l2, documentId)]
  /\ UNCHANGED <<l1, l3, userProfiles, config, isInitialized, calls>>

\* Layer2BM25.search
Layer2Search(query, layer1Results) ==
  /\ resp' = [op |-> "layer2.search", query |-> query,
              result |-> L2search(l2, config, query, layer1Results)]
  /\ UNCHANGED <<l1, l2, l3, userProfiles, config, isInitialized, calls>>

NextStage2 ==
  \/ \E document \in Documents : Layer2AddDocument(document)
  \/ \E documentId \in DocIds : Layer2RemoveDocument(documentId)
  \/ \E query \in {<<"data">>, <<"learning">>, <<"machine", "data">>},
        layer1Results \in
          {[documentIds |-> <<"d1", "d2", "d3">>, totalCount |-> 3],
           [documentIds |-> <<"d3", "d1">>, totalCount |-> 2]} :
       Layer2Search(query, layer1Results)

SpecStage2 == Init /\ [][NextStage2]_vars

(***************************************************************************)
(* SpecSimilar: the documents similar to a document of an initialized      *)
(* service, asked for while documents are added.                           *)
(***************************************************************************)
Limits == 0..MaxLimit

NextSimilar ==
  \/ \E document \in DistinctDocuments : AddDocument(document)
  \/ \E c \in CallSlots, vector \in Vectors : AddDocumentEmbedDone(c, vector)
  \/ \E documentId \in DocIds, limit \in Limits :
       FindSimilarDocuments(documentId, limit)

SpecSimilar == InitReady /\ [][NextSimilar]_vars

(***************************************************************************)
(* SpecConcurrent: calls that run at the same time, from construction on:  *)
(* up to MaxConcurrent calls are suspended at an await together.           *)
(***************************************************************************)
ConcurrentSlots == 1..MaxConcurrent

InitConcurrent ==
  /\ l1 = L1Empty
  /\ l2 = L2Empty
  /\ l3 = L3Empty
  /\ userProfiles = EmptyMap
  /\ config = DefaultConfig
  /\ isInitialized = FALSE
  /\ calls = [c \in ConcurrentSlots |-> Idle]
  /\ resp = [op |-> "none"]

NextConcurrent ==
  \/ Initialize
  \/ \E c \in ConcurrentSlots : InitializeDone(c)
  \/ \E document \in DistinctDocuments : AddDocument(document)
  \/ \E c \in ConcurrentSlots : AddDocumentLoadDone(c)
  \/ \E c \in ConcurrentSlots, vector \in OneVector :
       AddDocumentEmbedDone(c, vector)
  \/ \E c \in ConcurrentSlots : AddDocumentEmbedFailed(c)
  \/ \E documentId \in DocIds : RemoveDocument(documentId)

SpecConcurrent == InitConcurrent /\ [][NextConcurrent]_vars

(***************************************************************************)
(* Properties of the index: Stage 1 and Stage 2 under add and remove.      *)
(***************************************************************************)

\* C1: after any sequence of Stage-1 adds and removes, in which an id may be
\* added again with another text, every entry of the index has
\* documentFrequency = |documentIds| = |keys of termFrequency|, and every id
\* in documentIds is the id of a stored document.
C1_EntriesMatchStoredDocuments ==
  \A token \in DOMAIN l1.index :
    LET entry == l1.index[token]
    IN  /\ entry.documentFrequency = Len(entry.documentIds)
        /\ entry.documentFrequency = Cardinality(DOMAIN entry.termFrequency)
        /\ \A i \in 1..Len(entry.documentIds) :
             L1Has(l1, entry.documentIds[i])

\* the statistics the round trip of C2 compares: Stage-1 document count, total
\* terms and unique terms; Stage-2 document count, average document length
\* and every document frequency
RoundTripStats(s1, s2) ==
  [layer1 |-> [totalDocuments |-> L1getIndexStats(s1).totalDocuments,
               totalTerms |-> L1getIndexStats(s1).totalTerms,
               uniqueTerms |-> L1getIndexStats(s1).uniqueTerms],
   layer2 |-> [totalDocuments |-> L2getStats(s2).totalDocuments,
               averageDocumentLength |-> L2getStats(s2).averageDocumentLength,
               termDocumentFrequency |-> s2.termDocumentFrequency]]

\* C2: for a document d whose id is not stored, add(d) followed by
\* remove(d.id) restores the Stage-1 document count, total terms and unique
\* terms, and the Stage-2 document count, average document length and every
\* document frequency.
C2_AddRemoveRestoresStats ==
  \A d \in Documents :
    (~L1Has(l1, d.id) /\ ~L2Has(l2, d.id)) =>
      RoundTripStats(L1removeDocument(L1addDocument(l1, d), d.id),
                     L2removeDocument(L2addDocument(l2, d), d.id))
        = RoundTripStats(l1, l2)

(***************************************************************************)
(* Properties of the full search.                                          *)
(***************************************************************************)

\* Stage 1 and Stage 2 of a search of query in the present state
Stage1Of(query) == L1search(l1, config, query)
Stage2Of(query) == L2search(l2, config, query, Stage1Of(query))

IsSortedByScore(list) ==
  \A i \in 1..Len(list), j \in 1..Len(list) :
    i < j => list[i].score >= list[j].score

\* C3: Stage 2 omits a candidate of Stage 1 only when its total score is
\* exactly zero, and its list of scored candidates, before the truncation to
\* maxResultsLayer2, is sorted by score, highest first.
C3_OmitsOnlyZeroScores ==
  \A query \in Queries :
    LET scored == Stage2Of(query).scored
        candidates == Stage1Of(query).documentIds
    IN  /\ \A i \in 1..Len(candidates) :
             (\A j \in 1..Len(scored) : scored[j].documentId # candidates[i])
               => BM25TotalScore(l2, tokenizeAndNormalize(query),
                                 candidates[i]) = 0
        /\ IsSortedByScore(scored)

\* the service is initialized, no call is in flight, and all three stages
\* hold exactly the documents D1 and D2 of scenario S2, each added once
S2Corpus ==
  /\ isInitialized
  /\ \A c \in CallSlots : calls[c] = Idle
  /\ Range(l1.documents) = {D1, D2}
  /\ l1.documentCount = 2
  /\ DOMAIN l2.documents = {"d1", "d2"}
  /\ l2.documents["d1"] = D1
  /\ l2.documents["d2"] = D2
  /\ l2.totalDocuments = 2
  /\ L3Has(l3, "d1") /\ L3Has(l3, "d2")
  /\ Len(l3.embeddings) = 2

SearchReturned(query, userId) ==
  /\ resp.op = "search"
  /\ resp.error = NoValue
  /\ resp.request.query = query
  /\ resp.request.userId = userId

PositionsOf(results, id) == {i \in 1..Len(results) : results[i].id = id}

\* C4: on the corpus of S2 the full search of "neural networks" returns d2,
\* and ranks it above d1 whenever d1 is returned too.
C4_NeuralNetworksReturnsD2 ==
  (S2Corpus /\ SearchReturned(<<"neural", "networks">>, NoValue)) =>
    /\ PositionsOf(resp.results, "d2") # {}
    /\ \A i \in PositionsOf(resp.results, "d2"),
          j \in PositionsOf(resp.results, "d1") : i < j

\* the profile of u1 in scenario S6: d1 is in the click history and
\* technology among the preferred categories
S6Profile ==
  /\ "u1" \in DOMAIN userProfiles
  /\ InSeq("d1", userProfiles["u1"].behavior.clickHistory)
  /\ InSeq("technology", userProfiles["u1"].preferences.categories)

\* C5: on the corpus of S2, with the profile of S6, the search of "learning"
\* for u1 returns d1 with a final score of at least
\* stage3Score + 0.35 * 0.3 * stage3Score.
C5_LearningBoostsD1 ==
  (S2Corpus /\ S6Profile /\ SearchReturned(<<"learning">>, "u1")) =>
    \E i \in PositionsOf(resp.results, "d1") :
      resp.results[i].score >=
        resp.results[i].stage3Score
        + FxMul(FxMul(Pct(35), Pct(30)), resp.results[i].stage3Score)

(***************************************************************************)
(* Properties of the caps and of the boolean search.                       *)
(***************************************************************************)

\* C6: whatever the corpus and the request, each stage returns at most as
\* many entries as its configured cap: Stage 1 maxResultsLayer1, Stage 2
\* maxResultsLayer2, Stage 3 maxResultsLayer3, Stage 4 maxFinalResults; so
\* do quickSearch and booleanSearch.
C6_StagesRespectCaps ==
  /\ (resp.op = "search" /\ resp.error = NoValue) =>
       /\ Len(resp.layerStats.layer1.documentIds) <= config.maxResultsLayer1
       /\ Len(resp.layerStats.layer2.results) <= config.maxResultsLayer2
       /\ Len(resp.layerStats.layer3.results) <= config.maxResultsLayer3
       /\ Len(resp.layerStats.layer4.results) <= config.maxFinalResults
       /\ Len(resp.results) <= config.maxFinalResults
  /\ resp.op \in {"quickSearch", "booleanSearch"} =>
       Len(resp.result.documentIds) <= config.maxResultsLayer1
  /\ \A c \in CallSlots :
       calls[c].kind = "search" =>
         /\ Len(calls[c].layer1Result.documentIds) <= config.maxResultsLayer1
         /\ Len(calls[c].layer2Result.results) <= config.maxResultsLayer2

\* a full search has returned whose Stage 4 has cut its list at the cap
C6_Witness ==
  /\ resp.op = "search"
  /\ resp.error = NoValue
  /\ resp.layerStats.layer4.totalCount > Len(resp.results)
  /\ Len(resp.results) = config.maxFinalResults

AndOf(query) == L1booleanSearch(l1, config, query, "AND")
OrOf(query) == L1booleanSearch(l1, config, query, "OR")
NotOf(query) == L1booleanSearch(l1, config, query, "NOT")

\* C7 as stated: in every reachable state of the index and for every query
\* q, the result of the boolean search AND(q) is a subset of that of OR(q),
\* and the two are equal when q has exactly one accepted token.
C7_AndWithinOr ==
  \A query \in Queries :
    /\ Range(AndOf(query).documentIds) \subseteq Range(OrOf(query).documentIds)
    /\ Len(tokenizeAndNormalize(query)) = 1 => AndOf(query) = OrOf(query)

\* C7 amended: AND(q) is a subset of OR(q) whenever the result of OR(q) is
\* not cut at maxResultsLayer1, and the two are equal when q has exactly one
\* accepted token.
C7_AndWithinUncutOr ==
  \A query \in Queries :
    /\ OrOf(query).totalCount <= config.maxResultsLayer1 =>
         Range(AndOf(query).documentIds)
           \subseteq Range(OrOf(query).documentIds)
    /\ Len(tokenizeAndNormalize(query)) = 1 => AndOf(query) = OrOf(query)

\* an AND search of two accepted tokens has returned a document of the
\* present index, and an AND search of one accepted token would return
\* some but not all of the stored documents
C7_Witness ==
  /\ resp.op = "booleanSearch"
  /\ resp.operator = "AND"
  /\ Len(tokenizeAndNormalize(resp.query)) = 2
  /\ resp.result = AndOf(resp.query)
  /\ Len(resp.result.documentIds) > 0
  /\ OrOf(resp.query).totalCount <= config.maxResultsLayer1
  /\ \E query \in Queries :
       /\ Len(tokenizeAndNormalize(query)) = 1
       /\ AndOf(query).totalCount > 0
       /\ AndOf(query).totalCount < Len(l1.documents)

\* the stored documents that hold none of the tokens
StoredWithout(tokens) ==
  {id \in Range(DocKeys(l1.documents)) :
     Range(L1AllTokens(DocGet(l1.documents, id))) \cap Range(tokens) = {}}

\* C8: in every reachable state of the index and for every query with an
\* accepted token, the boolean search NOT returns exactly the stored
\* documents that hold none of the accepted tokens: NOT(q) and OR(q) are
\* disjoint and their union is the set of the stored ids, as long as the
\* Stage-1 cap cuts nothing.
C8_NotIsComplement ==
  \A query \in Queries :
    (/\ Len(tokenizeAndNormalize(query)) > 0
     /\ Len(l1.documents) <= config.maxResultsLayer1) =>
      /\ Range(NotOf(query).documentIds)
           = StoredWithout(tokenizeAndNormalize(query))
      /\ Range(NotOf(query).documentIds)
           \cap Range(OrOf(query).documentIds) = {}
      /\ Range(NotOf(query).documentIds)
           \cup Range(OrOf(query).documentIds)
           = Range(DocKeys(l1.documents))

(***************************************************************************)
(* Properties of the service's addDocument and removeDocument.             *)
(***************************************************************************)

InAllStages(id) == L1Has(l1, id) /\ L2Has(l2, id) /\ L3Has(l3, id)
InNoStage(id) == ~L1Has(l1, id) /\ ~L2Has(l2, id) /\ ~L3Has(l3, id)

\* C9: once addDocument(d) of the service has finished, normally or with
\* ADD_DOCUMENT_ERROR, d.id is stored in all of Stage 1, Stage 2 and Stage 3
\* or in none of them.
C9_AddIsAllOrNothing ==
  (/\ resp.op = "addDocument"
   /\ \A c \in CallSlots : calls[c] = Idle) =>
    InAllStages(resp.id) \/ InNoStage(resp.id)

\* C10: whenever removeDocument(id) of the service returns false, id was
\* stored in no stage before the call, and the call leaves the state of
\* every stage as it was.
C10_FalseRemoveChangesNothing ==
  [][\A documentId \in DocIds :
       (RemoveDocument(documentId) /\ ~resp'.success) =>
         (InNoStage(documentId) /\ UNCHANGED <<l1, l2, l3>>)]_vars

(***************************************************************************)
(* Properties of calls that run at the same time.                          *)
(***************************************************************************)

\* the calls of addDocument suspended at an await
AddsInFlight == {c \in DOMAIN calls : calls[c].kind = "addDocument"}

\* C11: at every point at which another operation can observe the state,
\* the suspension points of addDocument calls that run at the same time
\* among them, every document id stored in Stage 1 is stored in Stage 2.
\* (removeDocument has no suspension point: no removal is ever in progress
\* at such a point.)
C11_Stage1WithinStage2 ==
  \A id \in DocIds : L1Has(l1, id) => L2Has(l2, id)

\* two addDocument calls are suspended at an await together, each with its
\* document in Stage 1
C11_Witness ==
  /\ Cardinality(AddsInFlight) >= 2
  /\ \A c \in AddsInFlight : L1Has(l1, calls[c].document.id)
  /\ \E c, b \in AddsInFlight : calls[c].document.id # calls[b].document.id

\* the calls that wait for a load of the embedding model they have started
LoadsInFlight ==
  {c \in DOMAIN calls :
     \/ calls[c].kind = "initialize"
     \/ calls[c].kind = "addDocument" /\ calls[c].pc = "loading"}

\* C12: the embedding model is loaded at most once: of the Stage-3
\* operations started before the model is ready exactly one starts a load,
\* and the others wait for that load.
C12_OneLoadInFlight == Cardinality(LoadsInFlight) <= 1

(***************************************************************************)
(* Properties of the full search: limit, empty stages, initialization.     *)
(***************************************************************************)

\* C13: a full search whose request carries limit = L (1 <= L <= 100)
\* returns at most L results, and one without a limit returns at most
\* maxFinalResults.  (POST /search has put maxFinalResults into the limit of
\* a request that came without one.)
C13_AtMostLimitResults ==
  (resp.op = "search" /\ resp.error = NoValue) =>
    Len(resp.results) <= resp.request.limit

\* C14: on an initialized service, when a stage of the full search yields
\* no results (Stage 1 finds no candidate, say), search raises no error: it
\* returns no results, totalCount 0 and the layerStats of all four layers,
\* and every later stage is not invoked and is reported with empty results,
\* count 0 and executionTime 0.  (Only a search whose Stage 1 and Stage 2
\* both have results goes on to Stage 3, where alone it can fail.)
C14_EmptyStageEndsSearch ==
  /\ (resp.op = "search" /\ resp.error = NoValue) =>
       LET stats == resp.layerStats
       IN  /\ Len(stats.layer1.documentIds) = 0 =>
                /\ resp.results = << >> /\ resp.totalCount = 0
                /\ stats.layer2 = EmptyLayer2
                /\ stats.layer3 = EmptyLayer3
                /\ stats.layer4 = EmptyLayer4
           /\ Len(stats.layer2.results) = 0 =>
                /\ resp.results = << >> /\ resp.totalCount = 0
                /\ stats.layer3 = EmptyLayer3
                /\ stats.layer4 = EmptyLayer4
           /\ Len(stats.layer3.results) = 0 =>
                /\ resp.results = << >> /\ resp.totalCount = 0
                /\ stats.layer4 = EmptyLayer4
  /\ \A c \in DOMAIN calls :
       calls[c].kind = "search" =>
         /\ Len(calls[c].layer1Result.documentIds) > 0
         /\ Len(calls[c].layer2Result.results) > 0

\* a search has returned whose Stage 1 found candidates and whose Stage 2
\* kept none of them
C14_Witness ==
  /\ resp.op = "search"
  /\ resp.error = NoValue
  /\ Len(resp.layerStats.layer1.documentIds) > 0
  /\ Len(resp.layerStats.layer2.results) = 0
  /\ resp.layerStats.layer3 = EmptyLayer3

(***************************************************************************)
(* The not-initialized error of the full search.                           *)
(***************************************************************************)

\* C15: the full search fails with the not-initialized error exactly when
\* the embedding model is not ready at the time of the call (a search is
\* refused only while the model is not loaded, and is let through only
\* once it is loaded), and a refused search changes no state of the stages.
C15_NotInitializedIffModelNotReady ==
  [][/\ \A request \in IndexRequests :
          SearchNotInitialized(request) =>
            (/\ ~l3.isModelLoaded
             /\ UNCHANGED <<l1, l2, l3, userProfiles, isInitialized, calls>>)
     /\ isInitialized => l3.isModelLoaded]_vars

(***************************************************************************)
(* The fusion of Stage 3.                                                  *)
(***************************************************************************)

\* the similarity Stage 3 is to use for a Stage-2 result: the cosine of the
\* query vector and the stored vector of the document, 0 without one
SimilarityOf(id, queryEmbedding) ==
  IF L3Has(l3, id)
  THEN calculateCosineSimilarity(queryEmbedding, L3Get(l3, id).vector)
  ELSE 0

\* the searches suspended at the await of their query embedding
SearchesInFlight == {c \in DOMAIN calls : calls[c].kind = "search"}

Stage2Terms == {"data", "learning", "machine", "deep", "networks"}

\* C17: in one corpus, of two stored documents of the same length the one
\* in which a term t occurs more often never has the lower BM25 score for
\* a query of t (the score of a document depends on the document only by
\* its length and its term frequencies), whatever the document frequency
\* of t is.
C17_ScoreGrowsWithTf ==
  \A a, b \in DOMAIN l2.documents, t \in Stage2Terms :
    (/\ l2.documentLengths[a] = l2.documentLengths[b]
     /\ getTermFrequency(l2, t, a) >= 1
     /\ getTermFrequency(l2, t, a) < getTermFrequency(l2, t, b)) =>
      BM25TotalScore(l2, <<t>>, a) <= BM25TotalScore(l2, <<t>>, b)

(***************************************************************************)
(* The average document length of Stage 2.                                 *)
(***************************************************************************)

\* the lengths, in tokens, of the documents Stage 2 stores
StoredLengths ==
  [id \in DOMAIN l2.documents |-> Len(L2Tokens(l2.documents[id]))]

\* C18: after any sequence of additions and removals of Stage 2, ids
\* repeating or not, averageDocumentLength is the sum of the lengths of the
\* documents stored divided by the number of documents stored, and 0 when
\* none is stored.
C18_AverageOfStoredLengths ==
  l2.averageDocumentLength =
    IF DOMAIN l2.documents = {} THEN 0
    ELSE Fx(SumOver(StoredLengths, DOMAIN l2.documents),
            Cardinality(DOMAIN l2.documents))

(***************************************************************************)
(* The documents similar to a document.                                    *)
(***************************************************************************)
IsSortedBySimilarity(list) ==
  \A i \in 1..Len(list), j \in 1..Len(list) :
    i < j => list[i].similarity >= list[j].similarity

\* C19: findSimilarDocuments(id, K) on an id with a stored vector returns at
\* most K entries, none of them id, each the id of a document with a stored
\* vector together with its cosine to the vector of id, the entries sorted
\* by similarity, highest first; on an id without a stored vector it fails
\* with a LayerError and changes no state.
C19_SimilarDocuments ==
  [][\A documentId \in DocIds, limit \in Limits :
       FindSimilarDocuments(documentId, limit) =>
         IF L3Has(l3, documentId)
         THEN LET result == resp'.result
              IN  /\ resp'.error = NoValue
                  /\ Len(result) <= limit
                  /\ \A i \in 1..Len(result) :
                       /\ result[i].documentId # documentId
                       /\ L3Has(l3, result[i].documentId)
                       /\ result[i].similarity =
                            calculateCosineSimilarity(
                              L3Get(l3, documentId).vector,
                              L3Get(l3, result[i].documentId).vector)
                  /\ \A i, j \in 1..Len(result) :
                       i # j => result[i].documentId # result[j].documentId
                  /\ IsSortedBySimilarity(result)
         ELSE /\ resp'.error = "LayerError"
              /\ UNCHANGED <<l1, l2, l3, userProfiles, config, isInitialized,
                             calls>>]_vars

\* findSimilarDocuments has answered with as many entries as its limit
\* allows, out of three stored vectors of which the most similar was not
\* stored first
C19_Witness ==
  /\ resp.op = "findSimilarDocuments"
  /\ resp.error = NoValue
  /\ resp.limit >= 1
  /\ Len(resp.result) = resp.limit
  /\ Len(l3.embeddings) = 3
  /\ L3Has(l3, resp.id)
  /\ \E i \in 1..Len(l3.embeddings) :
       /\ l3.embeddings[i].documentId \notin {resp.id, resp.result[1].documentId}
       /\ \E j \in 1..Len(l3.embeddings) :
            /\ i < j
            /\ l3.embeddings[j].documentId = resp.result[1].documentId
            /\ l3.embeddings[i].vector # l3.embeddings[j].vector

(***************************************************************************)
(* Stage 4 for a request without user and without context.                 *)
(***************************************************************************)

\* the temporal boost Stage 4 is to give a result at the clock reading now
TemporalBoostOf(result, now) ==
  IF result.metadata.category # NoValue
  THEN calculateTimeOfDayBoost(result.metadata.category, now.hour)
       + calculateDayOfWeekBoost(result.metadata.category, now.dayOfWeek)
  ELSE 0

\* C20: when a request has no userId and no context and the temporal boost
\* of every result of Stage 3 is zero, Stage 4 returns the results of
\* Stage 3, cut to maxFinalResults, each with the score Stage 3 gave it and
\* in the order of Stage 3; stated for every search whose query embedding
\* may arrive, every vector it may be and every clock reading.
C20_Stage4KeepsStage3 ==
  \A c \in SearchesInFlight, queryEmbedding \in Vectors, now \in Clocks :
    (/\ calls[c].request.userId = NoValue
     /\ ~calls[c].request.context.defined) =>
      LET layer3Result == L3search(l3, config, queryEmbedding,
                                   calls[c].layer2Result)
          given == layer3Result.results
          out == personalize(userProfiles, config, calls[c].request,
                             layer3Result, now).results
      IN  (\A i \in 1..Len(given) : TemporalBoostOf(given[i], now) = 0) =>
            /\ Len(out) = Min(Len(given), config.maxFinalResults)
            /\ \A i \in 1..Len(out) :
                 /\ out[i].id = given[i].id
                 /\ out[i].score = given[i].score

\* a search without user and context has answered with two or more results
\* of Stage 3, none of them boosted by Stage 4
C20_Witness ==
  /\ resp.op = "search"
  /\ resp.error = NoValue
  /\ resp.request.userId = NoValue
  /\ ~resp.request.context.defined
  /\ Len(resp.layerStats.layer3.results) >= 2
  /\ Len(resp.layerStats.layer4.results) >= 1
  /\ \A i \in 1..Len(resp.layerStats.layer4.results) :
       resp.layerStats.layer4.results[i].temporalBoost = 0

(***************************************************************************)
(* The personalizationScore of a request.                                  *)
(***************************************************************************)

\* min(1.0, the weights that apply to the request), the weight of the
\* temporal signals among them in any case
WeightsOf(request) ==
  LET sum == (IF request.userId # NoValue THEN config.userProfileWeight ELSE 0)
             + (IF request.context.defined THEN config.contextWeight ELSE 0)
             + config.temporalWeight
  IN  IF sum > Scale THEN Scale ELSE sum

\* C21 as stated: the Stage-4 entry of every answer of the full search
\* carries personalizationScore = min(1.0, (userProfileWeight if a userId is
\* supplied) + (contextWeight if a context is supplied) + temporalWeight).
C21_ScoreIsSumOfWeights ==
  (resp.op = "search" /\ resp.error = NoValue) =>
    resp.layerStats.layer4.personalizationScore = WeightsOf(resp.request)

\* C21, amended: the Stage-4 entry carries that sum whenever Stage 3 handed
\* at least one result to Stage 4, and 0 when Stage 4 had no result to work
\* on.
C21_ScoreIsSumOfWeightsOrZero ==
  (resp.op = "search" /\ resp.error = NoValue) =>
    resp.layerStats.layer4.personalizationScore =
      IF Len(resp.layerStats.layer3.results) > 0
      THEN WeightsOf(resp.request) ELSE 0

\* a search with userId and context has answered with results under weights
\* whose sum exceeds 1.0
C21_Witness ==
  /\ resp.op = "search"
  /\ resp.error = NoValue
  /\ resp.request.userId # NoValue
  /\ resp.request.context.defined
  /\ Len(resp.layerStats.layer4.results) > 0
  /\ config.userProfileWeight + config.contextWeight + config.temporalWeight
       > Scale
  /\ resp.layerStats.layer4.personalizationScore = Scale


(***************************************************************************)
(* The behaviour histories at their caps: one user's clicks and searches,  *)
(* the documents and the queries numbered in the order they first occur.   *)
(***************************************************************************)
\* the documents clicked are "1" .. MaxClicks, the queries "1" .. MaxSearches
MaxClicks == 102
MaxSearches == 52

ClickHistoryOf(userId) ==
  IF userId \in DOMAIN userProfiles
  THEN userProfiles[userId].behavior.clickHistory ELSE << >>

SearchHistoryOf(userId) ==
  IF userId \in DOMAIN userProfiles
  THEN userProfiles[userId].behavior.searchHistory ELSE << >>

\* a click on document "1" at any time, on the next document after the click
\* on its predecessor; the next query after its predecessor
NextHistory ==
  \/ \E userId \in Users, k \in 1..MaxClicks :
       /\ k > 1 => /\ ClickHistoryOf(userId) # << >>
                   /\ ClickHistoryOf(userId)[Len(ClickHistoryOf(userId))] = ToString(k - 1)
       /\ RecordUserBehavior(userId, [action |-> "click",
                                      data |-> [documentId |-> ToString(k)]], 1)
  \/ \E userId \in Users, k \in 1..MaxSearches :
       /\ IF k = 1 THEN SearchHistoryOf(userId) = << >>
          ELSE /\ SearchHistoryOf(userId) # << >>
               /\ SearchHistoryOf(userId)[Len(SearchHistoryOf(userId))] = <<ToString(k - 1)>>
       /\ ClickHistoryOf(userId) \in {<< >>, <<"1">>}
       /\ RecordUserBehavior(userId, [action |-> "search",
                                      data |-> [query |-> <<ToString(k)>>]], 1)

SpecHistory == InitReady /\ [][NextHistory]_vars

\* C22: after any number of click and search events the click history holds
\* at most 100 entries and the search history at most 50, and what is kept is
\* what was appended last: the history after an event that appends is the
\* tail of the history before it with the new entry at its end.
C22_HistoriesCapped ==
  /\ [](\A u \in DOMAIN userProfiles :
          /\ Len(userProfiles[u].behavior.clickHistory) <= 100
          /\ Len(userProfiles[u].behavior.searchHistory) <= 50)
  /\ [][resp'.op = "recordUserBehavior" =>
          LET u == resp'.userId
              data == resp'.event.data
              clicks == ClickHistoryOf(u)
              searches == SearchHistoryOf(u)
              clicksAfter == userProfiles'[u].behavior.clickHistory
              searchesAfter == userProfiles'[u].behavior.searchHistory
              \* after is a tail of before followed by entry
              KeepsLatest(before, after, entry) ==
                /\ after # << >>
                /\ after[Len(after)] = entry
                /\ Len(after) <= Len(before) + 1
                /\ SubSeq(after, 1, Len(after) - 1) =
                     SubSeq(before, Len(before) - Len(after) + 2, Len(before))
          IN  /\ (resp'.event.action = "click" /\ ~InSeq(data.documentId, clicks)) =>
                   KeepsLatest(clicks, clicksAfter, data.documentId)
              /\ resp'.event.action = "search" =>
                   KeepsLatest(searches, searchesAfter, data.query)]_vars

\* both histories full, the first document and the first query dropped
C22_Witness ==
  /\ resp.op = "recordUserBehavior"
  /\ Len(ClickHistoryOf("u1")) = 100
  /\ Len(SearchHistoryOf("u1")) = 50
  /\ ~InSeq("1", ClickHistoryOf("u1"))
  /\ SearchHistoryOf("u1")[1] = <<"2">>

\* C27 as stated: a click history holds no document id twice, at most 100
\* ids, and the ids in the order of their first click (the documents are
\* numbered in the order they are first clicked).
C27_OrderOfFirstClick ==
  \A u \in DOMAIN userProfiles :
    LET h == userProfiles[u].behavior.clickHistory
        NumberOf(id) == CHOOSE n \in 1..MaxClicks : ToString(n) = id
    IN  /\ Len(h) <= 100
        /\ \A i \in 1..Len(h) - 1 : NumberOf(h[i]) < NumberOf(h[i + 1])

\* C27: a click history holds no document id twice and at most 100 ids; a
\* click on an id it holds leaves it as it is, and a click on any other id
\* puts that id at its end and, once 100 are held, drops the oldest one.
C27_NoDuplicatesFifo ==
  /\ [](\A u \in DOMAIN userProfiles :
          LET h == userProfiles[u].behavior.clickHistory
          IN  /\ Len(h) <= 100
              /\ \A i, j \in 1..Len(h) : h[i] = h[j] => i = j)
  /\ [][(resp'.op = "recordUserBehavior" /\ resp'.event.action = "click") =>
          LET u == resp'.userId
              id == resp'.event.data.documentId
              before == ClickHistoryOf(u)
              after == userProfiles'[u].behavior.clickHistory
          IN  after = IF InSeq(id, before) THEN before
                      ELSE IF Len(before) < 100 THEN Append(before, id)
                      ELSE Append(Tail(before), id)]_vars

\* a full history that document "1" was dropped from and entered again
C27_Witness ==
  /\ resp.op = "recordUserBehavior"
  /\ resp.event.action = "click"
  /\ Len(ClickHistoryOf("u1")) = 100
  /\ ClickHistoryOf("u1")[100] = "1"
  /\ ClickHistoryOf("u1")[1] = "3"

(***************************************************************************)
(* The profile store: updateUserProfile and recordUserBehavior called on   *)
(* one user at successive times.                                           *)
(***************************************************************************)
\* the latest time of a call, and the most a document's time spent grows to
MaxTime == 2
MaxTimeSpent == 10

\* the bodies PUT /users/:userId/profile is called with (the route passes
\* req.body on as it comes): a whole profile, preferences with categories
\* alone, demographics alone, a behavior whose click history has 101 ids
NextStore ==
  \/ \E userId \in Users, now \in 1..MaxTime,
        profile \in ProfileInputs
                    \cup {[preferences |-> [categories |-> <<"news">>]],
                          [demographics |-> [age |-> 30]],
                          [behavior |-> [clickHistory |-> [k \in 1..101 |-> ToString(k)],
                                         searchHistory |-> << >>,
                                         timeSpent |-> EmptyMap]]} :
       /\ resp.op \in {"updateUserProfile", "recordUserBehavior"} => resp.now <= now
       /\ UpdateUserProfile(userId, profile, now)
  \/ \E userId \in Users, now \in 1..MaxTime,
        event \in BehaviorInputs
                  \cup {[action |-> "time_spent",
                         data |-> [documentId |-> "d1", timeSpent |-> 5]]} :
       /\ resp.op \in {"updateUserProfile", "recordUserBehavior"} => resp.now <= now
       /\ userId \in DOMAIN userProfiles =>
            LET behavior == userProfiles[userId].behavior
            IN  /\ event.action = "search" =>
                     Len(behavior.searchHistory) < MaxSearchHistory
                /\ (event.action = "time_spent"
                      /\ event.data.documentId \in DOMAIN behavior.timeSpent) =>
                     behavior.timeSpent[event.data.documentId] < MaxTimeSpent
       /\ RecordUserBehavior(userId, event, now)

SpecStore == InitReady /\ [][NextStore]_vars

\* C23: updateUserProfile on a user who has a profile keeps every field the
\* supplied profile does not hold: the top-level fields it leaves out, and
\* in preferences, behavior and demographics the sub-fields it leaves out.
C23_UnsuppliedFieldsKept ==
  [][(resp'.op = "updateUserProfile" /\ resp'.userId \in DOMAIN userProfiles) =>
       LET before == userProfiles[resp'.userId]
           after == userProfiles'[resp'.userId]
           profile == resp'.profile
       IN  \A f \in DOMAIN before :
             IF f \notin DOMAIN profile THEN after[f] = before[f]
             ELSE f \in {"preferences", "behavior", "demographics"} =>
                    \A g \in DOMAIN before[f] \ DOMAIN profile[f] :
                      /\ g \in DOMAIN after[f]
                      /\ after[f][g] = before[f][g]]_vars

\* C29: in every state of the profile store every profile's click history
\* has at most 100 entries and its search history at most 50.
C29_StoredHistoriesCapped ==
  \A u \in DOMAIN userProfiles :
    /\ Len(userProfiles[u].behavior.clickHistory) <= 100
    /\ Len(userProfiles[u].behavior.searchHistory) <= 50

\* C30: after a call of updateUserProfile or recordUserBehavior the stored
\* profile's lastUpdated is the time of that call.
C30_LastUpdatedIsTimeOfCall ==
  resp.op \in {"updateUserProfile", "recordUserBehavior"} =>
    userProfiles[resp.userId].lastUpdated = resp.now

\* C26: once an addDocument(d) and a removeDocument(d.id) that ran
\* interleaved have both ended, no embedding of d.id is left behind: while no
\* addDocument of an id is in progress, an id that has an embedding in
\* Stage 3 is stored in Stage 1 and in Stage 2.
C26_NoOrphanEmbedding ==
  \A id \in DocIds :
    ((\A c \in AddsInFlight : calls[c].document.id # id) /\ L3Has(l3, id)) =>
      (L1Has(l1, id) /\ L2Has(l2, id))

\* C25: in the full cascade a result whose document was added with category
\* c, returned to a user whose profile has c among its preferred categories,
\* carries the category boost: its personalizationBoost is at least 0.20.
C25_CategoryBoost ==
  (resp.op = "search" /\ resp.error = NoValue
     /\ resp.request.userId \in DOMAIN userProfiles) =>
    \A i \in 1..Len(resp.results) :
      LET result == resp.results[i]
          categories == userProfiles[resp.request.userId].preferences.categories
      IN  (/\ result.id \in DOMAIN l2.documents
           /\ l2.documents[result.id].category # NoValue
           /\ InSeq(l2.documents[result.id].category, categories)) =>
            result.personalizationBoost >= Pct(20)

(***************************************************************************)
(* A search that runs interleaved with removeDocument: the search is       *)
(* suspended after Stage 1 and while it waits for the query embedding, and *)
(* the embedding model answers.                                            *)
(***************************************************************************)
NextRemoval ==
  \/ \E document \in RankDocuments : AddDocument(document)
  \/ \E c \in CallSlots, vector \in OneVector : AddDocumentEmbedDone(c, vector)
  \/ \E document \in RankDocuments : RemoveDocument(document.id)
  \/ \E query \in {<<"news", "machine", "deep">>, <<"machine", "deep">>} :
       SearchStage1([query |-> query, userId |-> NoValue,
                     context |-> NoContext, limit |-> Absent])
  \/ \E c \in CallSlots : SearchStage2(c)
  \/ \E c \in CallSlots, queryEmbedding \in OneVector, now \in Clocks :
       SearchEmbedDone(c, queryEmbedding, now)

SpecRemoval == InitReady /\ [][NextRemoval]_vars

\* C28: a search that runs interleaved with removeDocument does not end in
\* SEARCH_ERROR because of the removal: Stage 2, resumed on the candidates
\* Stage 1 gave, never throws for a candidate removed meanwhile (it skips
\* it), and a candidate removed after Stage 2 is returned with the results.
C28_RemovalNeverFailsSearch ==
  /\ resp.op = "search" => resp.error = NoValue
  /\ \A c \in DOMAIN calls :
       calls[c].kind = "searchLayer1" =>
         ~L2searchThrows(l2, config, calls[c].request.query,
                         calls[c].layer1Result)

\* Stage 1 gave three candidates, each with a term of its own, and Stage 2
\* kept none of them: one was removed between the stages, and the search
\* ended without error
C28_Witness ==
  /\ resp.op = "search"
  /\ resp.error = NoValue
  /\ Len(resp.layerStats.layer1.documentIds) = 3
  /\ resp.layerStats.layer2.scored = << >>

(***************************************************************************)
(* Profile calls that run interleaved.  updateUserProfile and              *)
(* recordUserBehavior are suspended at each await of getUserProfile and of *)
(* updateUserProfile; getUserProfile reads the Map when it is called.  A   *)
(* behavior object is shared by every profile object that was spread from *)
(* one holding it, and recordUserBehavior changes it in place: each        *)
(* behavior object carries in ref the call that created it, and a change   *)
(* of an object is a change of every copy with its ref.  A slot serves one *)
(* call, so that a ref names one object.                                   *)
(***************************************************************************)
\* recordUserBehavior up to its first await: getUserProfile has read the Map
RecordStart(userId, event) ==
  /\ HasFreeSlot
  /\ calls' = [calls EXCEPT ![FreeSlot] =
                 [kind |-> "recordUserBehavior", pc |-> "getProfile",
                  userId |-> userId, event |-> event,
                  existing |-> IF userId \in DOMAIN userProfiles
                               THEN userProfiles[userId] ELSE EmptyMap,
                  updatedProfile |-> EmptyMap]]
  /\ UNCHANGED <<l1, l2, l3, userProfiles, config, isInitialized, resp>>

\* updateUserProfile up to its await: getUserProfile has read the Map
UpdateStart(userId, profile) ==
  /\ HasFreeSlot
  /\ calls' = [calls EXCEPT ![FreeSlot] =
                 [kind |-> "updateUserProfile", pc |-> "updating",
                  userId |-> userId, profile |-> profile,
                  existing |-> IF userId \in DOMAIN userProfiles
                               THEN userProfiles[userId] ELSE EmptyMap,
                  updatedProfile |-> EmptyMap]]
  /\ UNCHANGED <<l1, l2, l3, userProfiles, config, isInitialized, resp>>

\* recordUserBehavior resumes with the profile it read: without one it calls
\* updateUserProfile, which reads the Map and is suspended; with one it
\* calls getUserProfile a second time
RecordAfterGet(c) ==
  /\ calls[c].kind = "recordUserBehavior"
  /\ calls[c].pc = "getProfile"
  /\ LET userId == calls[c].userId
         stored == IF userId \in DOMAIN userProfiles
                   THEN userProfiles[userId] ELSE EmptyMap
     IN  calls' = [calls EXCEPT ![c] =
                     IF DOMAIN calls[c].existing = {}
                     THEN [@ EXCEPT !.pc = "creating", !.existing = stored]
                     ELSE [@ EXCEPT !.pc = "getUpdated",
                                    !.updatedProfile = stored]]
  /\ UNCHANGED <<l1, l2, l3, userProfiles, config, isInitialized, resp>>

\* updateUserProfile resumes with the profile it read and sets the Map:
\* called by recordUserBehavior to create the profile, called by
\* recordUserBehavior with the profile it has changed, or called by itself
ProfileSet(c) ==
  /\ calls[c].kind \in {"recordUserBehavior", "updateUserProfile"}
  /\ calls[c].pc \in {"creating", "updating"}
  /\ LET userId == calls[c].userId
         WithRef(behavior) ==
           [f \in DOMAIN behavior \cup {"ref"} |->
              IF f = "ref" /\ f \notin DOMAIN behavior THEN c ELSE behavior[f]]
         profile ==
           IF calls[c].pc = "creating"
           THEN [userId |-> userId, preferences |-> EmptyPreferences,
                 behavior |-> EmptyBehavior]
           ELSE IF calls[c].kind = "updateUserProfile" THEN calls[c].profile
           ELSE calls[c].updatedProfile
         seen == IF DOMAIN calls[c].existing = {} THEN EmptyMap
                 ELSE [u \in {userId} |-> calls[c].existing]
         set == updateUserProfile(seen, userId, profile, 1)[userId]
     IN  /\ userProfiles' =
              MapSet(userProfiles, userId,
                     [set EXCEPT !.behavior = WithRef(@)])
         /\ calls' = [calls EXCEPT ![c] =
                        IF calls[c].pc = "creating"
                        THEN [@ EXCEPT !.pc = "created"]
                        ELSE [kind |-> "done", userId |-> userId,
                              op |-> calls[c].kind,
                              input |-> IF calls[c].kind = "updateUserProfile"
                                        THEN calls[c].profile
                                        ELSE calls[c].event]]
         /\ resp' = IF calls[c].pc = "creating" THEN resp
                    ELSE [op |-> calls[c].kind, userId |-> userId, now |-> 1]
  /\ UNCHANGED <<l1, l2, l3, config, isInitialized>>

\* recordUserBehavior resumes after the profile was created and calls
\* getUserProfile
RecordAfterCreate(c) ==
  /\ calls[c].kind = "recordUserBehavior"
  /\ calls[c].pc = "created"
  /\ calls' = [calls EXCEPT ![c] =
                 [@ EXCEPT !.pc = "getUpdated",
                           !.updatedProfile = userProfiles[calls[c].userId]]]
  /\ UNCHANGED <<l1, l2, l3, userProfiles, config, isInitialized, resp>>

\* recordUserBehavior resumes with updatedProfile, changes its behavior
\* object in place and calls updateUserProfile, which reads the Map
RecordApply(c) ==
  /\ calls[c].kind = "recordUserBehavior"
  /\ calls[c].pc = "getUpdated"
  /\ LET userId == calls[c].userId
         updatedProfile == calls[c].updatedProfile
         ref == updatedProfile.behavior.ref
         behavior ==
           recordUserBehavior([u \in {userId} |-> updatedProfile], userId,
                              calls[c].event.action, calls[c].event.data,
                              1)[userId].behavior
         Changed(profile) ==
           IF DOMAIN profile # {} /\ profile.behavior.ref = ref
           THEN [profile EXCEPT !.behavior = behavior] ELSE profile
         profiles == [u \in DOMAIN userProfiles |-> Changed(userProfiles[u])]
     IN  /\ userProfiles' = profiles
         /\ calls' =
              [b \in DOMAIN calls |->
                 IF b = c
                 THEN [calls[c] EXCEPT !.pc = "updating",
                                       !.updatedProfile = Changed(@),
                                       !.existing = profiles[userId]]
                 ELSE IF calls[b].kind \in {"recordUserBehavior",
                                            "updateUserProfile"}
                 THEN [calls[b] EXCEPT !.existing = Changed(@),
                                       !.updatedProfile = Changed(@)]
                 ELSE calls[b]]
  /\ UNCHANGED <<l1, l2, l3, config, isInitialized, resp>>

NextInterleaved ==
  \/ \E userId \in Users,
        event \in BehaviorInputs
                  \cup {[action |-> "time_spent",
                         data |-> [documentId |-> "d1", timeSpent |-> 5]]} :
       RecordStart(userId, event)
  \/ \E userId \in Users,
        profile \in ProfileInputs
                    \cup {[preferences |-> [categories |-> <<"news">>,
                                            languages |-> << >>,
                                            topics |-> << >>]]} :
       UpdateStart(userId, profile)
  \/ \E c \in ConcurrentSlots : RecordAfterGet(c)
  \/ \E c \in ConcurrentSlots : RecordAfterCreate(c)
  \/ \E c \in ConcurrentSlots : RecordApply(c)
  \/ \E c \in ConcurrentSlots : ProfileSet(c)

SpecInterleaved == InitConcurrent /\ [][NextInterleaved]_vars

\* the profile stores the calls of the slots in done leave when they run
\* one after the other, in any order, on the store profiles
RECURSIVE SerialStores(_, _)
SerialStores(profiles, done) ==
  IF done = {} THEN {profiles}
  ELSE UNION
         {SerialStores(
            IF calls[c].op = "recordUserBehavior"
            THEN recordUserBehavior(profiles, calls[c].userId,
                                    calls[c].input.action,
                                    calls[c].input.data, 1)
            ELSE updateUserProfile(profiles, calls[c].userId,
                                   calls[c].input, 1),
            done \ {c}) : c \in done}

\* C24: when the recordUserBehavior and updateUserProfile calls for a user
\* that ran interleaved have all ended, the stored profile is the one some
\* serial order of these calls leaves (so no click, search or time spent of
\* theirs is lost).
C24_InterleavingIsSerial ==
  (\A c \in DOMAIN calls : calls[c].kind \in {"idle", "done"}) =>
    [u \in DOMAIN userProfiles |->
       [userProfiles[u] EXCEPT
          !.behavior = [f \in DOMAIN @ \ {"ref"} |-> @[f]]]]
      \in SerialStores(EmptyMap, {c \in DOMAIN calls : calls[c].kind = "done"})

====
